---- MODULE Spec2Model ----
(***************************************************************************)
(* Model of serial::TransceiverManager<Capacity> and FixedPacket<Capacity> *)
(* (src/hardware/serial/transceiver_manager.hpp).                          *)
(*                                                                         *)
(* The receive side (recv_packet) and the send side (send_packet, the send *)
(* mode, the send worker) share no state in the source.  SpecRecv runs the *)
(* receive side from any reachable state, SpecFresh runs it for at most    *)
(* MaxCalls calls after construction and keeps the history of those calls, *)
(* SpecSend runs the send side, SpecFifo the send side of a manager that   *)
(* stays in FIFO mode.  SpecRead runs the realtime receive loop and        *)
(* get_latest_packet, SpecLife both loops and the destructor, SpecPacket   *)
(* load_data and unload_data of a FixedPacket on its own.                  *)
(* SpecBuffer runs copy_from, set_check_byte and clear of a FixedPacket,   *)
(* SpecFault the receive loop and synchronous sends over a transport that  *)
(* throws, SpecStop both loops under fair scheduling, SpecRace the receive *)
(* loop with the application calling recv_packet itself, and SpecStream    *)
(* recv_packet with every byte tagged by its place in the byte stream.     *)
(* SpecDrain runs the send side in FIFO mode with the loop left enabled    *)
(* under fair scheduling, SpecMutate load_data, clear and set_check_byte   *)
(* of a FixedPacket.                                                       *)
(*                                                                         *)
(* umt::Subscriber<T> and umt::Publisher<T> (src/umt/Message.hpp) are a    *)
(* separate part of the model: SpecQueue runs one subscriber's queue with  *)
(* its publishers, SpecPop the blocking pop under fair scheduling.         *)
(***************************************************************************)
EXTENDS Integers, Sequences, FiniteSets, TLC

\* ------------------------------------------------------------- constants

\* template<std::size_t Capacity>: the instantiation that is model-checked
\* (the static_assert of FixedPacket asks for Capacity >= 3).
Capacity == 3

HEAD_BYTE == 255
TAIL_BYTE == 13

\* The byte values the transport delivers: head, tail and one other value.
Byte == {HEAD_BYTE, TAIL_BYTE, 0}

\* SpecFresh: the number of recv_packet calls after construction.
\* SpecStream: the number of recv_packet calls after construction (MaxReads).
MaxCalls == 2
MaxReads == 3

\* ------------------------------------------------------------- variables

\* _tmp_buffer and _recv_buffer are std::array's that recv_packet reads only
\* below recv_len and _recv_buf_len: the variables hold those live prefixes as
\* sequences (index i of the source is element i + 1), and the bytes beyond
\* them, which no statement of the source reads, are not kept.
VARIABLES
    tmp_buffer,     \* _tmp_buffer[0 .. recv_len): what the last read delivered
    recv_buffer,    \* _recv_buffer[0 .. _recv_buf_len)
    recv_buf_len,   \* _recv_buf_len
    packet,         \* the caller's PacketType after recv_packet
    recv_len,       \* what the last _transporter->read returned (-2: it threw)
    len0,           \* _recv_buf_len when the last recv_packet was entered
    arg,            \* the caller's PacketType when the last recv_packet was entered
    wr_hi,          \* the highest _recv_buffer index the last recv_packet wrote (-1: none)
    trace,          \* SpecFresh: the recv_packet calls so far, [len0, n, data, ret], oldest first (SpecStream: with the places in the byte stream, see Streamed)
    op,             \* the last operation
    ret,            \* what the last recv_packet / send_packet returned
    calls,          \* the transport calls the last operation made, in order
    threw           \* the transport call that threw in the last send_packet or recv_packet ("none": none did)

rvars == <<tmp_buffer, recv_buffer, recv_buf_len, packet, recv_len, len0, arg, wr_hi>>
cvars == <<op, ret, calls, threw>>

\* buffer[i] of the source
At(buffer, i) == buffer[i + 1]

\* -------------------------------------------------------------- FixedPacket

\* FixedPacket(): zero-filled, head and tail set.
DefaultPacket ==
    [i \in 1 .. Capacity |-> IF i = 1 THEN HEAD_BYTE
                             ELSE IF i = Capacity THEN TAIL_BYTE ELSE 0]

\* copy_from(src + off): memcpy of Capacity bytes.
CopyFrom(src, off) == [i \in 1 .. Capacity |-> At(src, off + i - 1)]

\* The packets a caller hands to recv_packet: a default-constructed one, or
\* the one its previous call was given (the receive worker passes the same
\* local packet on every iteration).
PacketIn == {DefaultPacket, packet}

\* ------------------------------------------------------- TransceiverManager

CheckPacket_TailOffByOne(buffer, off, len) ==
    /\ len = Capacity
    /\ At(buffer, off) = HEAD_BYTE
    /\ At(buffer, off + Capacity - 2) = TAIL_BYTE

CheckPacket_CheckByte(buffer, off, len) ==
    /\ len = Capacity
    /\ At(buffer, off) = HEAD_BYTE
    /\ At(buffer, off + Capacity - 1) = TAIL_BYTE
    /\ At(buffer, off + Capacity - 2) = 0

\* check_packet(buffer + off, len)
CheckPacket(buffer, off, len) ==
    /\ len = Capacity
    /\ At(buffer, off) = HEAD_BYTE
    /\ At(buffer, off + Capacity - 1) = TAIL_BYTE

AppendAt_NoReset(len, n) == len

\* The overflow test of recv_packet: the length the new bytes are appended at.
AppendAt(len, n) == IF len + n > Capacity * 2 THEN 0 ELSE len

Memcpy_AtFront(dst, at, src, n) == SubSeq(src, 1, n)

\* std::memcpy(dst + at, src, n), dst live up to at: the live bytes after it.
Memcpy(dst, at, src, n) == SubSeq(dst, 1, at) \o SubSeq(src, 1, n)

ScanRange_Strict(len) == {i \in 0 .. (2 * Capacity) : i + Capacity < len}

\* The indices the scan loop of recv_packet visits: i + Capacity <= len.
ScanRange(len) == {i \in 0 .. (2 * Capacity) : i + Capacity <= len}

FirstValid_Last(buf, len) ==
    LET hits == {i \in ScanRange(len) : CheckPacket(buf, i, Capacity)}
    IN  IF hits = {} THEN -1
        ELSE CHOOSE i \in hits : \A j \in hits : i >= j

\* The scan loop: the first index whose window check_packet accepts, -1 if none.
FirstValid(buf, len) ==
    LET hits == {i \in ScanRange(len) : CheckPacket(buf, i, Capacity)}
    IN  IF hits = {} THEN -1
        ELSE CHOOSE i \in hits : \A j \in hits : i <= j

\* The value of k after the shift loop that follows a frame at i.
CompactLen(i, len) == IF len > i + Capacity THEN len - (i + Capacity) ELSE 0

Compact_Keep(buf, i, len) ==
    [k \in 1 .. CompactLen(i, len) |-> At(buf, k - 1)]

\* The shift loop after a frame at i: _recv_buffer[k] = _recv_buffer[j],
\* j from i + Capacity to len - 1, k from 0.
Compact(buf, i, len) ==
    [k \in 1 .. CompactLen(i, len) |-> At(buf, (k - 1) + i + Capacity)]

Max(a, b) == IF a >= b THEN a ELSE b

\* What a read of n bytes delivers.
ReadData(n) == [1 .. n -> Byte]

\* Whether _transporter->open throws when it is called (close is noexcept).
OpenThrows == BOOLEAN

Reconnect_OpenOnly == <<"open">>

\* The reconnect attempt after a failed read or a short write.
Reconnect == <<"close", "open">>

RecvThrow_Resets ==
    \E p \in PacketIn :
        /\ op' = "recv"
        /\ calls' = <<"read">>
        /\ threw' = "read"
        /\ ret' = FALSE
        /\ recv_len' = -2
        /\ tmp_buffer' = <<>>
        /\ len0' = recv_buf_len
        /\ arg' = p
        /\ wr_hi' = -1
        /\ packet' = DefaultPacket
        /\ UNCHANGED <<recv_buffer, recv_buf_len>>

\* recv_packet, the read threw: the catch block returns false.
RecvThrow ==
    \E p \in PacketIn :
        /\ op' = "recv"
        /\ calls' = <<"read">>
        /\ threw' = "read"
        /\ ret' = FALSE
        /\ recv_len' = -2
        /\ tmp_buffer' = <<>>
        /\ len0' = recv_buf_len
        /\ arg' = p
        /\ wr_hi' = -1
        /\ packet' = p
        /\ UNCHANGED <<recv_buffer, recv_buf_len>>

\* recv_packet, the read returned n <= 0: close, open, return false
\* (also when open throws: the catch block returns false as well).
RecvFail ==
    \E p \in PacketIn : \E n \in {-1, 0} : \E o \in OpenThrows :
        /\ op' = "recv"
        /\ calls' = <<"read">> \o Reconnect
        /\ threw' = IF o THEN "open" ELSE "none"
        /\ ret' = FALSE
        /\ recv_len' = n
        /\ tmp_buffer' = <<>>
        /\ len0' = recv_buf_len
        /\ arg' = p
        /\ wr_hi' = -1
        /\ packet' = p
        /\ UNCHANGED <<recv_buffer, recv_buf_len>>

RecvData_FastResets ==
    \E p \in PacketIn : \E n \in 1 .. Capacity : \E t \in ReadData(n) :
        /\ op' = "recv"
        /\ calls' = <<"read">>
        /\ threw' = "none"
        /\ recv_len' = n
        /\ tmp_buffer' = t
        /\ len0' = recv_buf_len
        /\ arg' = p
        /\ IF CheckPacket(t, 0, n)
           THEN /\ packet' = CopyFrom(t, 0)
                /\ ret' = TRUE
                /\ wr_hi' = -1
                /\ recv_buffer' = <<>>
                /\ recv_buf_len' = 0
           ELSE LET at  == AppendAt(recv_buf_len, n)
                    buf == Memcpy(recv_buffer, at, t, n)
                    len == at + n
                    i   == FirstValid(buf, len)
                IN  IF i >= 0
                    THEN /\ packet' = CopyFrom(buf, i)
                         /\ recv_buffer' = Compact(buf, i, len)
                         /\ recv_buf_len' = CompactLen(i, len)
                         /\ wr_hi' = Max(len - 1, CompactLen(i, len) - 1)
                         /\ ret' = TRUE
                    ELSE /\ recv_buffer' = buf
                         /\ recv_buf_len' = len
                         /\ wr_hi' = len - 1
                         /\ ret' = FALSE
                         /\ packet' = p

\* recv_packet, the read returned n > 0 bytes.
RecvData ==
    \E p \in PacketIn : \E n \in 1 .. Capacity : \E t \in ReadData(n) :
        /\ op' = "recv"
        /\ calls' = <<"read">>
        /\ threw' = "none"
        /\ recv_len' = n
        /\ tmp_buffer' = t
        /\ len0' = recv_buf_len
        /\ arg' = p
        /\ IF CheckPacket(t, 0, n)
           THEN /\ packet' = CopyFrom(t, 0)
                /\ ret' = TRUE
                /\ wr_hi' = -1
                /\ UNCHANGED <<recv_buffer, recv_buf_len>>
           ELSE LET at  == AppendAt(recv_buf_len, n)
                    buf == Memcpy(recv_buffer, at, t, n)
                    len == at + n
                    i   == FirstValid(buf, len)
                IN  IF i >= 0
                    THEN /\ packet' = CopyFrom(buf, i)
                         /\ recv_buffer' = Compact(buf, i, len)
                         /\ recv_buf_len' = CompactLen(i, len)
                         /\ wr_hi' = Max(len - 1, CompactLen(i, len) - 1)
                         /\ ret' = TRUE
                    ELSE /\ recv_buffer' = buf
                         /\ recv_buf_len' = len
                         /\ wr_hi' = len - 1
                         /\ ret' = FALSE
                         /\ packet' = p

\* The state after the constructor.
InitRecv ==
    /\ tmp_buffer = <<>>
    /\ recv_buffer = <<>>
    /\ recv_buf_len = 0
    /\ packet = DefaultPacket
    /\ recv_len = 0
    /\ len0 = 0
    /\ arg = DefaultPacket
    /\ wr_hi = -1
    /\ trace = <<>>
    /\ op = "init"
    /\ ret = FALSE
    /\ calls = <<>>
    /\ threw = "none"

RecvPacket == RecvThrow \/ RecvFail \/ RecvData

\* ------------------------------------------------------------- send side

\* SpecSend: the number of send_packet calls, and the largest max_queue_size
\* handed to the constructor or to set_send_mode.
MaxSends == 3
MaxLimit == 2

\* SpecLife: the number of recv_packet calls of the receive worker.
MaxLifeCalls == 1

\* enum class SendMode
SendMode == {"FIFO", "LATEST_ONLY", "LIMITED_FIFO"}

\* Packets of the send side are told apart by the number of the send_packet
\* call that passed them: 1, 2, ...
VARIABLES
    use_realtime_send,  \* _use_realtime_send
    realtime_packets,   \* _realtime_packets, oldest first
    send_mode,          \* _send_mode
    max_queue_size,     \* _max_queue_size
    send_thread,        \* _realtime_send_thread: "none", or where the worker is
    wpacket,            \* the worker's local packet (0: default-constructed)
    app,                \* the application thread: "idle", or "join" inside enable_realtime_send(false), "in_recv" inside recv_packet
    nsent,              \* send_packet calls so far
    last_queued,        \* the packet of the last send_packet that queued (0: none)
    wire,               \* the packets handed to _transporter->write, in order
    wcalls,             \* the transport calls the worker's last simple_send_packet made
    wsent,              \* the packets the worker handed to _transporter->write, in order
    queued,             \* the packets send_packet pushed on the queue, in order
    wres,               \* what _transporter->write did in the last send_packet ("none": not called)
    ub,                 \* pop() was called on an empty std::queue
    send_mut            \* _realtime_send_mut: "free", or "worker" while the send worker holds it

svars == <<use_realtime_send, realtime_packets, send_mode, max_queue_size,
           send_thread, wpacket, app, nsent, last_queued, wire, wcalls, wsent,
           queued, wres, ub, send_mut>>

\* The send side without the application thread's position.
ovars == <<use_realtime_send, realtime_packets, send_mode, max_queue_size,
           send_thread, wpacket, nsent, last_queued, wire, wcalls, wsent,
           queued, wres, ub, send_mut>>

\* The realtime receive loop.  A std::optional is a sequence of length 0 or 1.
VARIABLES
    use_realtime_read,  \* _use_realtime_read
    read_thread,        \* _realtime_read_thread: "none", or where the worker is
    latest_packet,      \* _latest_packet
    got,                \* what the last get_latest_packet returned
    got_n,              \* how many packets had been stored when it returned (-1: never called)
    framed,             \* the packets the worker's recv_packet calls framed, in order
    stored              \* the packets the worker stored in _latest_packet, in order

lvars == <<use_realtime_read, read_thread, latest_packet, got, got_n, framed, stored>>

\* FixedPacket<PacketCap> on its own: the instantiation that is model-checked
\* for load_data and unload_data, the largest DataLen, and the modulus of
\* std::size_t arithmetic (2^64 in the build, scaled down).
PacketCap == 5
MaxField == 2
SizeModulus == 16

VARIABLES
    pbuf,       \* _buffer of a FixedPacket<PacketCap>
    shadow,     \* per byte of _buffer: <<b>> when b is the byte load_data was last given for it, <<>> when it never was
    pout,       \* the bytes of the caller's data after the last unload_data
    pin,        \* the bytes the caller's data held when an unload_data that returned nullopt was called (<<>> after any other)
    pret,       \* what the last call on the packet returned: "true" or "nullopt", "void", "throw"
    pcall       \* the last call on the packet

pvars == <<pbuf, shadow, pout, pin, pret, pcall>>

\* umt::Subscriber<T> and the umt::Publisher<T>'s bound to the same message
\* (src/umt/Message.hpp): the number of publishers, the largest fifo_size
\* handed to set_fifo_size, and the number of messages pushed.  Messages are
\* told apart by the number of the push that published them: 1, 2, ...
NumPubs == 2
MaxFifo == 2
MaxPush == 3

\* explicit Subscriber(const std::string &msg_name, size_t size = 1)
DefaultFifoSize == 1

Pubs == 1 .. NumPubs

VARIABLES
    fifo_size,  \* Subscriber::fifo_size
    fifo,       \* Subscriber::fifo, oldest first
    pubs,       \* MessagePipe::pubs: the publishers bound to the message
    mtx,        \* Subscriber::mtx: "free", "sub" while the subscriber's thread holds it
    subs_mtx,   \* MessagePipe::subs_mtx: 0 when free, or the publisher that holds it
    pubs_mtx,   \* MessagePipe::pubs_mtx: 0 when free, or the publisher that holds it
    sub_pc,     \* the subscriber's thread: "idle", or where it is inside pop
    pub_pc,     \* per publisher: "idle", where its thread is inside push or reset, or "gone" after reset
    npush,      \* messages written to the subscriber so far
    popped,     \* the messages pop returned, in order
    pop_ret     \* what the last pop did: "none", "message", "stopped"

mvars == <<fifo_size, fifo, pubs, mtx, subs_mtx, pubs_mtx, sub_pc, pub_pc,
           npush, popped, pop_ret>>

vars == <<rvars, trace, cvars, svars, lvars, pvars, mvars>>

\* What _transporter->write can do: return Capacity, return another count, throw.
WriteResult == {"ok", "short", "throw"}

\* simple_send_packet: the transport calls it makes.
SimpleSendCalls(w) == IF w = "short" THEN <<"write">> \o Reconnect ELSE <<"write">>

SimpleSendRet_ThrowOk(w) == w # "short"

\* simple_send_packet: what it returns.
SimpleSendRet(w) == w = "ok"

\* simple_send_packet: the transport call whose exception the catch block
\* met, o telling whether open throws when called.
SimpleSendThrew(w, o) ==
    IF w = "throw" THEN "write" ELSE IF w = "short" /\ o THEN "open" ELSE "none"

Pop_Back(q) == SubSeq(q, 1, Len(q) - 1)

\* std::queue::pop on a non-empty queue.
Pop(q) == SubSeq(q, 2, Len(q))

Enqueue_NoEvict(q, mode, max, p) == {Append(q, p)}

\* send_packet with the worker enabled: the queue after the switch on
\* _send_mode.  pop() on an empty std::queue is undefined behaviour: the
\* queue may be left as it was, and the push that follows shows (the queue
\* holds p), or be left with its bounds crossed, and the push that follows
\* brings them together again (the queue reads as empty, p is lost).
Enqueue(q, mode, max, p) ==
    CASE mode = "LATEST_ONLY" -> {<<p>>}
      [] mode = "LIMITED_FIFO" ->
            IF Len(q) >= max
            THEN IF q = <<>> THEN {<<p>>, <<>>} ELSE {Append(Pop(q), p)}
            ELSE {Append(q, p)}
      [] OTHER -> {Append(q, p)}

\* Whether that switch calls pop() on an empty queue.
EnqueueUB(q, mode, max) == mode = "LIMITED_FIFO" /\ Len(q) >= max /\ q = <<>>

Renormalize_Keep(q, mode, max) == q

\* set_send_mode: the queue after the two if blocks.
Renormalize(q, mode, max) ==
    CASE mode = "LATEST_ONLY" /\ q # <<>> -> <<q[Len(q)]>>
      [] mode = "LIMITED_FIFO" /\ Len(q) > max -> SubSeq(q, Len(q) - max + 1, Len(q))
      [] OTHER -> q

EnableSend_Restart ==
    /\ app = "idle"
    /\ op' = "enable_send"
    /\ use_realtime_send' = TRUE
    /\ send_thread' = "test"
    /\ UNCHANGED <<realtime_packets, send_mode, max_queue_size, wpacket, app,
                   nsent, last_queued, queued, wire, wcalls, wsent, wres, ub, send_mut, ret, calls, threw>>

\* enable_realtime_send(true)
EnableSend ==
    /\ app = "idle"
    /\ op' = "enable_send"
    /\ IF use_realtime_send
       THEN UNCHANGED <<use_realtime_send, send_thread>>
       ELSE /\ use_realtime_send' = TRUE
            /\ send_thread' = "test"
    /\ UNCHANGED <<realtime_packets, send_mode, max_queue_size, wpacket, app,
                   nsent, last_queued, queued, wire, wcalls, wsent, wres, ub, send_mut, ret, calls, threw>>

DisableSend_NoJoin ==
    /\ app = "idle"
    /\ op' = "disable_send"
    /\ use_realtime_send' = FALSE
    /\ UNCHANGED <<realtime_packets, send_mode, max_queue_size, send_thread,
                   wpacket, app, nsent, last_queued, queued, wire, wcalls, wsent,
                   wres, ub, send_mut, ret, calls, threw>>

DisableSend_Drains ==
    /\ app = "idle"
    /\ op' = "disable_send"
    /\ IF use_realtime_send
       THEN /\ use_realtime_send' = FALSE
            /\ app' = "join"
       ELSE UNCHANGED <<use_realtime_send, app>>
    /\ realtime_packets' = <<>>
    /\ UNCHANGED <<send_mode, max_queue_size, send_thread,
                   wpacket, nsent, last_queued, queued, wire, wcalls, wsent, wres, ub, send_mut, ret, calls, threw>>

\* enable_realtime_send(false), up to the join
DisableSend ==
    /\ app = "idle"
    /\ op' = "disable_send"
    /\ IF use_realtime_send
       THEN /\ use_realtime_send' = FALSE
            /\ app' = "join"
       ELSE UNCHANGED <<use_realtime_send, app>>
    /\ UNCHANGED <<realtime_packets, send_mode, max_queue_size, send_thread,
                   wpacket, nsent, last_queued, queued, wire, wcalls, wsent, wres, ub, send_mut, ret, calls, threw>>

\* enable_realtime_send(false): join returns once the worker has exited
JoinSend ==
    /\ app = "join"
    /\ send_thread = "exited"
    /\ send_thread' = "none"
    /\ app' = "idle"
    /\ UNCHANGED <<use_realtime_send, realtime_packets, send_mode, max_queue_size,
                   wpacket, nsent, last_queued, queued, wire, wcalls, wsent, wres, ub, send_mut, cvars>>

SendQueued_Write ==
    \E w \in WriteResult : \E o \in OpenThrows :
        /\ app = "idle"
        /\ send_mut = "free"
        /\ use_realtime_send
        /\ nsent < MaxSends
        /\ nsent' = nsent + 1
        /\ realtime_packets' \in Enqueue(realtime_packets, send_mode, max_queue_size, nsent + 1)
        /\ ub' = (ub \/ EnqueueUB(realtime_packets, send_mode, max_queue_size))
        /\ last_queued' = nsent + 1
        /\ queued' = Append(queued, nsent + 1)
        /\ wire' = Append(wire, nsent + 1)
        /\ op' = "send"
        /\ ret' = SimpleSendRet(w)
        /\ wres' = w
        /\ calls' = SimpleSendCalls(w)
        /\ threw' = SimpleSendThrew(w, o)
        /\ UNCHANGED <<send_mut, use_realtime_send, send_mode, max_queue_size, send_thread,
                       wpacket, app, wcalls, wsent>>

\* send_packet with the worker enabled: queue under the lock, return true
SendQueued ==
    /\ app = "idle"
    /\ send_mut = "free"
    /\ use_realtime_send
    /\ nsent < MaxSends
    /\ nsent' = nsent + 1
    /\ realtime_packets' \in Enqueue(realtime_packets, send_mode, max_queue_size, nsent + 1)
    /\ ub' = (ub \/ EnqueueUB(realtime_packets, send_mode, max_queue_size))
    /\ last_queued' = nsent + 1
    /\ queued' = Append(queued, nsent + 1)
    /\ op' = "send"
    /\ ret' = TRUE
    /\ wres' = "none"
    /\ calls' = <<>>
    /\ threw' = "none"
    /\ UNCHANGED <<send_mut, use_realtime_send, send_mode, max_queue_size, send_thread,
                   wpacket, app, wire, wcalls, wsent>>

\* send_packet with the worker disabled: simple_send_packet
SendDirect ==
    \E w \in WriteResult : \E o \in OpenThrows :
        /\ app = "idle"
        /\ ~use_realtime_send
        /\ nsent < MaxSends
        /\ nsent' = nsent + 1
        /\ wire' = Append(wire, nsent + 1)
        /\ op' = "send"
        /\ ret' = SimpleSendRet(w)
        /\ wres' = w
        /\ calls' = SimpleSendCalls(w)
        /\ threw' = SimpleSendThrew(w, o)
        /\ UNCHANGED <<use_realtime_send, realtime_packets, send_mode,
                       max_queue_size, send_thread, wpacket, app, last_queued, queued,
                       wcalls, wsent, ub, send_mut>>

\* set_send_mode(mode, max), under the lock, from any thread
SetSendMode ==
    \E mode \in SendMode : \E max \in 0 .. MaxLimit :
        /\ send_mut = "free"
        /\ send_mode' = mode
        /\ max_queue_size' = max
        /\ realtime_packets' = Renormalize(realtime_packets, mode, max)
        /\ op' = "set_send_mode"
        /\ UNCHANGED <<use_realtime_send, send_thread, wpacket, app, nsent,
                       last_queued, queued, wire, wcalls, wsent, wres, ub, send_mut, ret, calls, threw>>

WorkerTest_Forever ==
    /\ send_thread = "test"
    /\ send_thread' = "lock"
    /\ UNCHANGED <<use_realtime_send, realtime_packets, send_mode, max_queue_size,
                   wpacket, app, nsent, last_queued, queued, wire, wcalls, wsent, wres, ub, send_mut, cvars>>

\* the worker: while (_use_realtime_send)
WorkerTest ==
    /\ send_thread = "test"
    /\ send_thread' = IF use_realtime_send THEN "lock" ELSE "exited"
    /\ UNCHANGED <<use_realtime_send, realtime_packets, send_mode, max_queue_size,
                   wpacket, app, nsent, last_queued, queued, wire, wcalls, wsent, wres, ub, send_mut, cvars>>

\* the worker: lock_guard on _realtime_send_mut
WorkerAcquire ==
    /\ send_thread = "lock"
    /\ send_mut = "free"
    /\ send_mut' = "worker"
    /\ send_thread' = "locked"
    /\ UNCHANGED <<use_realtime_send, realtime_packets, send_mode, max_queue_size,
                   wpacket, app, nsent, last_queued, queued, wire, wcalls, wsent,
                   wres, ub, cvars>>

WorkerLock_Held ==
    /\ send_thread = "locked"
    /\ IF realtime_packets = <<>>
       THEN /\ send_thread' = "sleep"
            /\ UNCHANGED <<realtime_packets, wpacket>>
       ELSE /\ wpacket' = Head(realtime_packets)
            /\ realtime_packets' = Pop(realtime_packets)
            /\ send_thread' = "write"
    /\ UNCHANGED <<use_realtime_send, send_mode, max_queue_size, app, nsent,
                   last_queued, queued, wire, wcalls, wsent, wres, ub, send_mut, cvars>>

\* the worker: the block under the lock, and the release at its end
WorkerLock ==
    /\ send_thread = "locked"
    /\ send_mut' = "free"
    /\ IF realtime_packets = <<>>
       THEN /\ send_thread' = "sleep"
            /\ UNCHANGED <<realtime_packets, wpacket>>
       ELSE /\ wpacket' = Head(realtime_packets)
            /\ realtime_packets' = Pop(realtime_packets)
            /\ send_thread' = "write"
    /\ UNCHANGED <<use_realtime_send, send_mode, max_queue_size, app, nsent,
                   last_queued, queued, wire, wcalls, wsent, wres, ub, cvars>>

WorkerWrite_Retry ==
    \E w \in WriteResult :
        /\ send_thread = "write"
        /\ wire' = Append(wire, wpacket)
        /\ wcalls' = SimpleSendCalls(w)
        /\ wsent' = Append(wsent, wpacket)
        /\ send_thread' = "test"
        /\ realtime_packets' = IF SimpleSendRet(w) THEN realtime_packets
                               ELSE <<wpacket>> \o realtime_packets
        /\ UNCHANGED <<use_realtime_send, send_mode,
                       max_queue_size, wpacket, app, nsent, last_queued, queued,
                       wres, ub, send_mut, cvars>>

\* the worker: simple_send_packet(packet), the lock released
WorkerWrite ==
    \E w \in WriteResult :
        /\ send_thread = "write"
        /\ wire' = Append(wire, wpacket)
        /\ wcalls' = SimpleSendCalls(w)
        /\ wsent' = Append(wsent, wpacket)
        /\ send_thread' = "test"
        /\ UNCHANGED <<use_realtime_send, realtime_packets, send_mode,
                       max_queue_size, wpacket, app, nsent, last_queued, queued,
                       wres, ub, send_mut, cvars>>

\* the worker: sleep_for(1ms)
WorkerSleep ==
    /\ send_thread = "sleep"
    /\ send_thread' = "test"
    /\ UNCHANGED <<use_realtime_send, realtime_packets, send_mode, max_queue_size,
                   wpacket, app, nsent, last_queued, queued, wire, wcalls, wsent, wres, ub, send_mut, cvars>>

\* The send side after the constructor, whatever mode and max_queue_size it got.
InitSend ==
    /\ use_realtime_send = FALSE
    /\ realtime_packets = <<>>
    /\ send_mode \in SendMode
    /\ max_queue_size \in 0 .. MaxLimit
    /\ send_thread = "none"
    /\ wpacket = 0
    /\ app = "idle"
    /\ nsent = 0
    /\ last_queued = 0
    /\ wire = <<>>
    /\ wcalls = <<>>
    /\ wsent = <<>>
    /\ queued = <<>>
    /\ wres = "none"
    /\ ub = FALSE
    /\ send_mut = "free"

\* The constructor's default max_queue_size.
DefaultMaxQueueSize == 100

\* The send side after the constructor with its default arguments.
InitSendDefault ==
    /\ use_realtime_send = FALSE
    /\ realtime_packets = <<>>
    /\ send_mode = "FIFO"
    /\ max_queue_size = DefaultMaxQueueSize
    /\ send_thread = "none"
    /\ wpacket = 0
    /\ app = "idle"
    /\ nsent = 0
    /\ last_queued = 0
    /\ wire = <<>>
    /\ wcalls = <<>>
    /\ wsent = <<>>
    /\ queued = <<>>
    /\ wres = "none"
    /\ ub = FALSE
    /\ send_mut = "free"

\* ------------------------------------------------------------ receive loop

\* The entry of trace for the call a step makes.
Traced ==
    /\ Len(trace) < MaxCalls
    /\ trace' = Append(trace, [len0 |-> recv_buf_len, n |-> recv_len',
                                data |-> tmp_buffer', ret |-> ret'])

\* The entry of trace for the call a step makes, with the byte stream the
\* transport has delivered so far (stream, its length end) and, as indices
\* into that stream (from 1), the bytes of the packet the call returned (out)
\* and the live bytes of the carry-over buffer after it (pos): recv_packet's
\* copies and shifts, done on the indices.
Streamed ==
    /\ Len(trace) < MaxReads
    /\ LET last   == trace[Len(trace)]
           base   == IF trace = <<>> THEN 0 ELSE last.end
           prev   == IF trace = <<>> THEN <<>> ELSE last.pos
           before == IF trace = <<>> THEN <<>> ELSE last.stream
           n      == recv_len'
           new    == [k \in 1 .. n |-> base + k]
           at     == AppendAt(recv_buf_len, n)
           comb   == Memcpy(prev, at, new, n)
           i      == FirstValid(Memcpy(recv_buffer, at, tmp_buffer', n), at + n)
       IN  trace' = Append(trace,
             [len0 |-> recv_buf_len, n |-> n, data |-> tmp_buffer', ret |-> ret',
              packet |-> packet',
              stream |-> before \o tmp_buffer',
              end |-> base + Max(n, 0),
              out |-> IF n <= 0 THEN <<>>
                      ELSE IF CheckPacket(tmp_buffer', 0, n) THEN CopyFrom(new, 0)
                      ELSE IF i >= 0 THEN CopyFrom(comb, i)
                      ELSE <<>>,
              pos |-> IF n <= 0 \/ CheckPacket(tmp_buffer', 0, n) THEN prev
                      ELSE IF i >= 0 THEN Compact(comb, i, at + n)
                      ELSE comb])

\* enable_realtime_read(true)
EnableRead ==
    /\ app = "idle"
    /\ op' = "enable_read"
    /\ IF use_realtime_read
       THEN UNCHANGED <<use_realtime_read, read_thread>>
       ELSE /\ use_realtime_read' = TRUE
            /\ read_thread' = "test"
    /\ UNCHANGED <<latest_packet, got, got_n, framed, stored, app, ret, calls, threw,
                   rvars, trace>>

\* enable_realtime_read(false), up to the join
DisableRead ==
    /\ app = "idle"
    /\ op' = "disable_read"
    /\ IF use_realtime_read
       THEN /\ use_realtime_read' = FALSE
            /\ app' = "join_read"
       ELSE UNCHANGED <<use_realtime_read, app>>
    /\ UNCHANGED <<read_thread, latest_packet, got, got_n, framed, stored, ret,
                   calls, threw, rvars, trace>>

\* enable_realtime_read(false): join returns once the worker has exited
JoinRead ==
    /\ app = "join_read"
    /\ read_thread = "exited"
    /\ read_thread' = "none"
    /\ app' = "idle"
    /\ UNCHANGED <<use_realtime_read, latest_packet, got, got_n, framed, stored,
                   cvars, rvars, trace>>

\* the receive worker: while (_use_realtime_read); it goes on to recv_packet
\* while calls are left to trace
ReaderTest ==
    /\ read_thread = "test"
    /\ use_realtime_read => Len(trace) < MaxCalls
    /\ read_thread' = IF use_realtime_read THEN "recv" ELSE "exited"
    /\ UNCHANGED <<use_realtime_read, latest_packet, got, got_n, framed, stored,
                   app, cvars, rvars, trace>>

\* the receive worker: recv_packet(packet)
ReaderRecv ==
    /\ read_thread = "recv"
    /\ RecvPacket
    /\ Traced
    /\ read_thread' = IF ret' THEN "store" ELSE "sleep"
    /\ framed' = IF ret' THEN Append(framed, packet') ELSE framed
    /\ UNCHANGED <<use_realtime_read, latest_packet, got, got_n, stored, app>>

ReaderStore_KeepFirst ==
    /\ read_thread = "store"
    /\ latest_packet' = (IF latest_packet = <<>> THEN <<packet>> ELSE latest_packet)
    /\ stored' = Append(stored, packet)
    /\ read_thread' = "test"
    /\ UNCHANGED <<use_realtime_read, got, got_n, framed, app, cvars, rvars, trace>>

\* the receive worker: _latest_packet = packet, under the lock
ReaderStore ==
    /\ read_thread = "store"
    /\ latest_packet' = <<packet>>
    /\ stored' = Append(stored, packet)
    /\ read_thread' = "test"
    /\ UNCHANGED <<use_realtime_read, got, got_n, framed, app, cvars, rvars, trace>>

\* the receive worker: sleep_for(1ms)
ReaderSleep ==
    /\ read_thread = "sleep"
    /\ read_thread' = "test"
    /\ UNCHANGED <<use_realtime_read, latest_packet, got, got_n, framed, stored,
                   app, cvars, rvars, trace>>

GetLatestPacket_Drain ==
    /\ app = "idle"
    /\ op' = "get_latest"
    /\ got' = (IF Len(latest_packet) > 0 THEN latest_packet ELSE <<>>)
    /\ got_n' = Len(stored)
    /\ latest_packet' = <<>>
    /\ UNCHANGED <<use_realtime_read, read_thread, framed, stored,
                   app, ret, calls, threw, rvars, trace>>

\* get_latest_packet(), under the lock
GetLatestPacket ==
    /\ app = "idle"
    /\ op' = "get_latest"
    /\ got' = (IF Len(latest_packet) > 0 THEN latest_packet ELSE <<>>)
    /\ got_n' = Len(stored)
    /\ UNCHANGED <<use_realtime_read, read_thread, latest_packet, framed, stored,
                   app, ret, calls, threw, rvars, trace>>

\* ~TransceiverManager: enable_realtime_send(false), up to the join
DtorDisableSend ==
    /\ app = "idle"
    /\ op' = "dtor"
    /\ IF use_realtime_send
       THEN /\ use_realtime_send' = FALSE
            /\ app' = "dtor_join_send"
       ELSE /\ app' = "dtor_read"
            /\ UNCHANGED use_realtime_send
    /\ UNCHANGED <<realtime_packets, send_mode, max_queue_size, send_thread,
                   wpacket, nsent, last_queued, queued, wire, wcalls, wsent, wres,
                   ub, send_mut, ret, calls, threw, lvars, rvars, trace>>

\* ~TransceiverManager: the join of enable_realtime_send(false)
DtorJoinSend ==
    /\ app = "dtor_join_send"
    /\ send_thread = "exited"
    /\ send_thread' = "none"
    /\ app' = "dtor_read"
    /\ UNCHANGED <<use_realtime_send, realtime_packets, send_mode, max_queue_size,
                   wpacket, nsent, last_queued, queued, wire, wcalls, wsent, wres,
                   ub, send_mut, cvars, lvars, rvars, trace>>

\* ~TransceiverManager: enable_realtime_read(false), up to the join
DtorDisableRead ==
    /\ app = "dtor_read"
    /\ IF use_realtime_read
       THEN /\ use_realtime_read' = FALSE
            /\ app' = "dtor_join_read"
       ELSE /\ app' = "gone"
            /\ UNCHANGED use_realtime_read
    /\ UNCHANGED <<read_thread, latest_packet, got, got_n, framed, stored, cvars,
                   ovars, rvars, trace>>

\* ~TransceiverManager: the join of enable_realtime_read(false); the members
\* are destroyed after it
DtorJoinRead ==
    /\ app = "dtor_join_read"
    /\ read_thread = "exited"
    /\ read_thread' = "none"
    /\ app' = "gone"
    /\ UNCHANGED <<use_realtime_read, latest_packet, got, got_n, framed, stored,
                   cvars, ovars, rvars, trace>>

\* recv_packet called by the application thread: the call is entered (no
\* test of _use_realtime_read, no lock) ...
AppRecvEnter ==
    /\ app = "idle"
    /\ Len(trace) < MaxCalls
    /\ app' = "in_recv"
    /\ UNCHANGED <<ovars, lvars, cvars, rvars, trace>>

\* ... and returns
AppRecvReturn ==
    /\ app = "in_recv"
    /\ RecvPacket
    /\ Traced
    /\ app' = "idle"
    /\ UNCHANGED <<ovars, lvars>>

\* Two threads inside recv_packet at once: the application thread and the
\* receive worker.
Racing == app = "in_recv" /\ read_thread = "recv"

\* Two threads in recv_packet update _recv_buf_len without synchronisation:
\* an update is lost, and a prefix of the live bytes stays live.
RecvRace ==
    /\ Racing
    /\ \E k \in 0 .. recv_buf_len :
        /\ recv_buf_len' = k
        /\ recv_buffer' = SubSeq(recv_buffer, 1, k)
    /\ UNCHANGED <<tmp_buffer, packet, recv_len, len0, arg, wr_hi, trace, cvars, svars, lvars>>

\* The receive loop after the constructor.
InitRead ==
    /\ use_realtime_read = FALSE
    /\ read_thread = "none"
    /\ latest_packet = <<>>
    /\ got = <<>>
    /\ got_n = -1
    /\ framed = <<>>
    /\ stored = <<>>

\* ------------------------------------------------------------ FixedPacket

\* std::size_t addition
SizeAdd(a, b) == (a + b) % SizeModulus

\* The indices handed to load_data and unload_data: the small ones, and the
\* largest std::size_t.
IndexSet == (0 .. (PacketCap - 2)) \cup {SizeModulus - 1}

\* FixedPacket<PacketCap>::FixedPacket
NewPacket ==
    [i \in 1 .. PacketCap |->
        IF i = 1 THEN HEAD_BYTE ELSE IF i = PacketCap THEN TAIL_BYTE ELSE 0]

\* copy_from(src): the packet rebuilt from the bytes of another's buffer
PacketCopyFrom(src) == [i \in 1 .. PacketCap |-> src[i]]

IndexOk_Inclusive(index, len) == index > 0 /\ SizeAdd(index, len) <= PacketCap - 1

\* load_data, unload_data: the bounds test
IndexOk(index, len) == index > 0 /\ SizeAdd(index, len) < PacketCap - 1

\* The byte of the field at index that lands on _buffer[i] (-1: none does);
\* _buffer.data() + index is address arithmetic, of the width of std::size_t.
FieldByte(index, len, i) ==
    LET hits == {k \in 0 .. (len - 1) : SizeAdd(index, k) = i}
    IN IF hits = {} THEN -1 ELSE CHOOSE k \in hits : TRUE

LoadData_Shifted(buf, data, index) ==
    IF IndexOk(index, Len(data))
    THEN [i \in 1 .. PacketCap |->
            IF FieldByte(index, Len(data), i) >= 0
            THEN data[FieldByte(index, Len(data), i) + 1]
            ELSE buf[i]]
    ELSE buf

\* load_data: _buffer after the call
LoadData(buf, data, index) ==
    IF IndexOk(index, Len(data))
    THEN [i \in 1 .. PacketCap |->
            IF FieldByte(index, Len(data), i - 1) >= 0
            THEN data[FieldByte(index, Len(data), i - 1) + 1]
            ELSE buf[i]]
    ELSE buf

\* load_data, unload_data: the memcpy is reached and one of its DataLen
\* bytes at _buffer.data() + index lies outside the PacketCap bytes of _buffer
MemcpyOutside(index, len) ==
    /\ IndexOk(index, len)
    /\ \E k \in 0 .. (len - 1) : SizeAdd(index, k) >= PacketCap

\* load_data, unload_data: the value returned
DataRet(index, len) == IF IndexOk(index, len) THEN "true" ELSE "nullopt"

\* unload_data: the bytes the caller's data can hold after the call; a byte
\* the memcpy reads outside _buffer can be any byte
UnloadData(buf, old, len, index) ==
    IF IndexOk(index, len)
    THEN {d \in [1 .. len -> Byte] :
            \A k \in 1 .. len :
                SizeAdd(index, k - 1) < PacketCap => d[k] = buf[SizeAdd(index, k - 1) + 1]}
    ELSE {old}

\* load_data<T, DataLen>(data, index)
PacketLoad ==
    \E len \in 0 .. MaxField : \E data \in [1 .. len -> Byte] : \E index \in IndexSet :
        /\ pbuf' = LoadData(pbuf, data, index)
        /\ shadow' = [i \in 1 .. PacketCap |->
                        IF IndexOk(index, len) /\ FieldByte(index, len, i - 1) >= 0
                        THEN <<data[FieldByte(index, len, i - 1) + 1]>>
                        ELSE shadow[i]]
        /\ pret' = DataRet(index, len)
        /\ pcall' = [name |-> "load", index |-> index, len |-> len, rebuilt |-> FALSE]
        /\ pin' = <<>>
        /\ UNCHANGED pout

\* unload_data<T, DataLen>(data, index), on the packet or on a packet rebuilt
\* from its buffer with copy_from
PacketUnload ==
    \E len \in 0 .. MaxField : \E index \in IndexSet : \E rebuilt \in BOOLEAN :
    \E old \in {pout} \cup {[k \in 1 .. len |-> 0]} :
        /\ pin' = IF DataRet(index, len) = "nullopt" THEN old ELSE <<>>
        /\ pout' \in UnloadData(IF rebuilt THEN PacketCopyFrom(pbuf) ELSE pbuf, old, len, index)
        /\ pret' = DataRet(index, len)
        /\ pcall' = [name |-> "unload", index |-> index, len |-> len, rebuilt |-> rebuilt]
        /\ UNCHANGED <<pbuf, shadow>>

Clear_KeepCheck(buf) ==
    [i \in 1 .. PacketCap |-> IF 1 < i /\ i < PacketCap - 1 THEN 0 ELSE buf[i]]

\* clear: std::fill(_buffer.begin() + 1, _buffer.end() - 1, 0)
Clear(buf) ==
    [i \in 1 .. PacketCap |-> IF 1 < i /\ i < PacketCap THEN 0 ELSE buf[i]]

\* set_check_byte: _buffer[Capacity - 2] = check_byte
SetCheckByte(buf, check_byte) == [buf EXCEPT ![PacketCap - 1] = check_byte]

\* is_valid, of a packet of any capacity
IsValid(buf) == buf[1] = HEAD_BYTE /\ buf[Len(buf)] = TAIL_BYTE

\* What copy_from is handed: a null pointer, or PacketCap bytes.
CopySources == {<<>>} \cup [1 .. PacketCap -> Byte]

\* clear()
PacketClear ==
    /\ pbuf' = Clear(pbuf)
    /\ pret' = "void"
    /\ pin' = <<>>
    /\ pcall' = [name |-> "clear", index |-> 0, len |-> 0, rebuilt |-> FALSE]
    /\ UNCHANGED <<shadow, pout>>

\* set_check_byte(check_byte)
PacketSetCheckByte ==
    \E check_byte \in Byte :
        /\ pbuf' = SetCheckByte(pbuf, check_byte)
        /\ pret' = "void"
        /\ pin' = <<>>
        /\ pcall' = [name |-> "set_check_byte", index |-> 0, len |-> 0, rebuilt |-> FALSE]
        /\ UNCHANGED <<shadow, pout>>

\* copy_from(src): throws on a null pointer, memcpy of Capacity bytes otherwise
PacketCopyIn ==
    \E src \in CopySources :
        /\ pbuf' = IF src = <<>> THEN pbuf ELSE PacketCopyFrom(src)
        /\ pret' = IF src = <<>> THEN "throw" ELSE "void"
        /\ pin' = <<>>
        /\ pcall' = [name |-> "copy_from", index |-> 0, len |-> 0, rebuilt |-> FALSE]
        /\ UNCHANGED <<shadow, pout>>

\* A freshly constructed packet.
InitPacket ==
    /\ pbuf = NewPacket
    /\ shadow = [i \in 1 .. PacketCap |-> <<>>]
    /\ pout = <<>>
    /\ pin = <<>>
    /\ pret = "nullopt"
    /\ pcall = [name |-> "new", index |-> 0, len |-> 0, rebuilt |-> FALSE]

\* ------------------------------------------------ umt::Subscriber, Publisher

\* Subscriber::write_obj: the queue after it
WriteObj(q, size, obj) ==
    IF size > 0 /\ Len(q) >= size THEN Append(Pop(q), obj) ELSE Append(q, obj)

\* the predicate pop waits for
PopReady == pubs = {} \/ fifo # <<>>

\* cv.notify_one(): a thread blocked in cv.wait is woken; with no thread
\* blocked the call does nothing
NotifyOne == sub_pc' = IF sub_pc = "blocked" THEN "woken" ELSE sub_pc

\* Publisher::push: std::unique_lock subs_lock(p_msg->subs_mtx)
PubPushLock(p) ==
    /\ pub_pc[p] = "idle"
    /\ npush < MaxPush
    /\ subs_mtx = 0
    /\ subs_mtx' = p
    /\ pub_pc' = [pub_pc EXCEPT ![p] = "write_obj"]
    /\ UNCHANGED <<fifo_size, fifo, pubs, mtx, pubs_mtx, sub_pc, npush, popped, pop_ret>>

\* Publisher::push: sub->write_obj(obj), under the subscriber's mtx
PubWriteObj(p) ==
    /\ pub_pc[p] = "write_obj"
    /\ mtx = "free"
    /\ fifo' = WriteObj(fifo, fifo_size, npush + 1)
    /\ npush' = npush + 1
    /\ pub_pc' = [pub_pc EXCEPT ![p] = "notify"]
    /\ UNCHANGED <<fifo_size, pubs, mtx, subs_mtx, pubs_mtx, sub_pc, popped, pop_ret>>

\* Publisher::push: sub->notify(), and the end of the call
PubNotify(p) ==
    /\ pub_pc[p] = "notify"
    /\ NotifyOne
    /\ subs_mtx' = 0
    /\ pub_pc' = [pub_pc EXCEPT ![p] = "idle"]
    /\ UNCHANGED <<fifo_size, fifo, pubs, mtx, pubs_mtx, npush, popped, pop_ret>>

\* Publisher::reset (the destructor calls it): p_msg->pubs.remove(this) under
\* pubs_mtx; the call ends here unless pubs became empty
PubResetRemove(p) ==
    /\ pub_pc[p] = "idle"
    /\ pubs_mtx = 0
    /\ pubs' = pubs \ {p}
    /\ IF pubs' = {}
       THEN /\ pubs_mtx' = p
            /\ pub_pc' = [pub_pc EXCEPT ![p] = "reset_notify"]
       ELSE /\ pubs_mtx' = 0
            /\ pub_pc' = [pub_pc EXCEPT ![p] = "gone"]
    /\ UNCHANGED <<fifo_size, fifo, mtx, subs_mtx, sub_pc, npush, popped, pop_ret>>

\* Publisher::reset, pubs empty: sub->notify() under subs_mtx, and the end of
\* the call
PubResetNotify(p) ==
    /\ pub_pc[p] = "reset_notify"
    /\ subs_mtx = 0
    /\ NotifyOne
    /\ pubs_mtx' = 0
    /\ pub_pc' = [pub_pc EXCEPT ![p] = "gone"]
    /\ UNCHANGED <<fifo_size, fifo, pubs, mtx, subs_mtx, npush, popped, pop_ret>>

\* Subscriber::pop: std::unique_lock lock(mtx)
SubPopLock ==
    /\ sub_pc = "idle"
    /\ mtx = "free"
    /\ mtx' = "sub"
    /\ sub_pc' = "check"
    /\ UNCHANGED <<fifo_size, fifo, pubs, subs_mtx, pubs_mtx, pub_pc, npush, popped, pop_ret>>

\* Subscriber::pop: cv.wait evaluates its predicate, mtx held
SubCheck ==
    /\ sub_pc = "check"
    /\ sub_pc' = IF PopReady THEN "ready" ELSE "wait"
    /\ UNCHANGED <<fifo_size, fifo, pubs, mtx, subs_mtx, pubs_mtx, pub_pc, npush, popped, pop_ret>>

\* Subscriber::pop: the predicate was false, cv.wait releases mtx and blocks
SubWait ==
    /\ sub_pc = "wait"
    /\ mtx' = "free"
    /\ sub_pc' = "blocked"
    /\ UNCHANGED <<fifo_size, fifo, pubs, subs_mtx, pubs_mtx, pub_pc, npush, popped, pop_ret>>

\* Subscriber::pop: a wake-up without a notify, which cv.wait is allowed
SubSpurious ==
    /\ sub_pc = "blocked"
    /\ sub_pc' = "woken"
    /\ UNCHANGED <<fifo_size, fifo, pubs, mtx, subs_mtx, pubs_mtx, pub_pc, npush, popped, pop_ret>>

\* Subscriber::pop: woken, cv.wait takes mtx again and goes back to its predicate
SubReacquire ==
    /\ sub_pc = "woken"
    /\ mtx = "free"
    /\ mtx' = "sub"
    /\ sub_pc' = "check"
    /\ UNCHANGED <<fifo_size, fifo, pubs, subs_mtx, pubs_mtx, pub_pc, npush, popped, pop_ret>>

\* Subscriber::pop after the wait: throw MessageError_Stopped when pubs is
\* empty, else move the front of fifo out and pop it
SubPopReturn ==
    /\ sub_pc = "ready"
    /\ IF pubs = {}
       THEN /\ pop_ret' = "stopped"
            /\ UNCHANGED <<fifo, popped>>
       ELSE /\ pop_ret' = "message"
            /\ popped' = Append(popped, Head(fifo))
            /\ fifo' = Pop(fifo)
    /\ mtx' = "free"
    /\ sub_pc' = "idle"
    /\ UNCHANGED <<fifo_size, pubs, subs_mtx, pubs_mtx, pub_pc, npush>>

\* Subscriber::clear, called by the subscriber's thread
SubClear ==
    /\ sub_pc = "idle"
    /\ mtx = "free"
    /\ fifo' = <<>>
    /\ UNCHANGED <<fifo_size, pubs, mtx, subs_mtx, pubs_mtx, sub_pc, pub_pc, npush, popped, pop_ret>>

\* Subscriber::set_fifo_size(size), called by the subscriber's thread
SetFifoSize ==
    \E size \in 0 .. MaxFifo :
        /\ sub_pc = "idle"
        /\ fifo_size' = size
        /\ UNCHANGED <<fifo, pubs, mtx, subs_mtx, pubs_mtx, sub_pc, pub_pc, npush, popped, pop_ret>>

\* A subscriber constructed with the default size and NumPubs publishers, all
\* bound to one message.
InitMessage ==
    /\ fifo_size = DefaultFifoSize
    /\ fifo = <<>>
    /\ pubs = Pubs
    /\ mtx = "free"
    /\ subs_mtx = 0
    /\ pubs_mtx = 0
    /\ sub_pc = "idle"
    /\ pub_pc = [p \in Pubs |-> "idle"]
    /\ npush = 0
    /\ popped = <<>>
    /\ pop_ret = "none"

\* -------------------------------------------------------- specifications

Init == InitRecv /\ InitSendDefault /\ InitRead /\ InitPacket /\ InitMessage

NextRecv ==
    \/ RecvThrow /\ UNCHANGED <<trace, svars, lvars, pvars, mvars>>
    \/ RecvFail /\ UNCHANGED <<trace, svars, lvars, pvars, mvars>>
    \/ RecvData /\ UNCHANGED <<trace, svars, lvars, pvars, mvars>>

SpecRecv == Init /\ [][NextRecv]_vars

NextFresh ==
    \/ RecvThrow /\ Traced /\ UNCHANGED <<svars, lvars, pvars, mvars>>
    \/ RecvFail /\ Traced /\ UNCHANGED <<svars, lvars, pvars, mvars>>
    \/ RecvData /\ Traced /\ UNCHANGED <<svars, lvars, pvars, mvars>>

SpecFresh == Init /\ [][NextFresh]_vars

InitAnyMode == InitRecv /\ InitSend /\ InitRead /\ InitPacket /\ InitMessage

\* recv_packet on a fresh manager, at most MaxReads calls, with the place of
\* every byte in the stream the transport delivers.
NextStream ==
    \/ RecvThrow /\ Streamed /\ UNCHANGED <<svars, lvars, pvars, mvars>>
    \/ RecvFail /\ Streamed /\ UNCHANGED <<svars, lvars, pvars, mvars>>
    \/ RecvData /\ Streamed /\ UNCHANGED <<svars, lvars, pvars, mvars>>

SpecStream == Init /\ [][NextStream]_vars

NextSend ==
    \/ EnableSend /\ UNCHANGED <<rvars, trace, lvars, pvars, mvars>>
    \/ DisableSend /\ UNCHANGED <<rvars, trace, lvars, pvars, mvars>>
    \/ JoinSend /\ UNCHANGED <<rvars, trace, lvars, pvars, mvars>>
    \/ SendQueued /\ UNCHANGED <<rvars, trace, lvars, pvars, mvars>>
    \/ SendDirect /\ UNCHANGED <<rvars, trace, lvars, pvars, mvars>>
    \/ SetSendMode /\ UNCHANGED <<rvars, trace, lvars, pvars, mvars>>
    \/ WorkerTest /\ UNCHANGED <<rvars, trace, lvars, pvars, mvars>>
    \/ WorkerAcquire /\ UNCHANGED <<rvars, trace, lvars, pvars, mvars>>
    \/ WorkerLock /\ UNCHANGED <<rvars, trace, lvars, pvars, mvars>>
    \/ WorkerWrite /\ UNCHANGED <<rvars, trace, lvars, pvars, mvars>>
    \/ WorkerSleep /\ UNCHANGED <<rvars, trace, lvars, pvars, mvars>>

SpecSend == InitAnyMode /\ [][NextSend]_vars

\* The receive loop and get_latest_packet.
NextRead ==
    \/ EnableRead /\ UNCHANGED <<ovars, pvars, mvars>>
    \/ DisableRead /\ UNCHANGED <<ovars, pvars, mvars>>
    \/ JoinRead /\ UNCHANGED <<ovars, pvars, mvars>>
    \/ ReaderTest /\ UNCHANGED <<ovars, pvars, mvars>>
    \/ ReaderRecv /\ UNCHANGED <<svars, pvars, mvars>>
    \/ ReaderStore /\ UNCHANGED <<ovars, pvars, mvars>>
    \/ ReaderSleep /\ UNCHANGED <<ovars, pvars, mvars>>
    \/ GetLatestPacket /\ UNCHANGED <<ovars, pvars, mvars>>

SpecRead == Init /\ [][NextRead]_vars

\* The receive loop with a transport whose read and open can throw, and
\* synchronous send_packet calls (at most MaxLifeCalls) whose write and open
\* can throw.
NextFault ==
    \/ EnableRead /\ UNCHANGED <<ovars, pvars, mvars>>
    \/ DisableRead /\ UNCHANGED <<ovars, pvars, mvars>>
    \/ JoinRead /\ UNCHANGED <<ovars, pvars, mvars>>
    \/ ReaderTest /\ UNCHANGED <<ovars, pvars, mvars>>
    \/ ReaderRecv /\ UNCHANGED <<svars, pvars, mvars>>
    \/ ReaderStore /\ UNCHANGED <<ovars, pvars, mvars>>
    \/ ReaderSleep /\ UNCHANGED <<ovars, pvars, mvars>>
    \/ GetLatestPacket /\ UNCHANGED <<ovars, pvars, mvars>>
    \/ SendDirect /\ nsent < MaxLifeCalls /\ UNCHANGED <<rvars, trace, lvars, pvars, mvars>>

SpecFault == Init /\ [][NextFault]_vars

\* The steps of the send worker, of the receive worker (which goes on to
\* recv_packet while fewer than MaxLifeCalls calls were made), and the joins.
SendWorker ==
    /\ WorkerTest \/ WorkerAcquire \/ WorkerLock \/ WorkerWrite \/ WorkerSleep
    /\ UNCHANGED <<rvars, trace, lvars, pvars, mvars>>

ReadWorker ==
    \/ ReaderTest /\ (use_realtime_read => Len(trace) < MaxLifeCalls) /\ UNCHANGED <<ovars, pvars, mvars>>
    \/ ReaderRecv /\ UNCHANGED <<svars, pvars, mvars>>
    \/ ReaderStore /\ UNCHANGED <<ovars, pvars, mvars>>
    \/ ReaderSleep /\ UNCHANGED <<ovars, pvars, mvars>>

Joins ==
    \/ JoinSend /\ UNCHANGED <<rvars, trace, lvars, pvars, mvars>>
    \/ JoinRead /\ UNCHANGED <<ovars, pvars, mvars>>
    \/ DtorJoinSend /\ UNCHANGED <<pvars, mvars>>
    \/ DtorJoinRead /\ UNCHANGED <<pvars, mvars>>

\* The two loops started and stopped and the destructor, with every thread
\* that can take a step taking one in the end: the workers are scheduled,
\* the transport calls they make return, and a join returns once the worker
\* has exited.
NextStop ==
    \/ EnableSend /\ UNCHANGED <<rvars, trace, lvars, pvars, mvars>>
    \/ DisableSend /\ UNCHANGED <<rvars, trace, lvars, pvars, mvars>>
    \/ SendQueued /\ UNCHANGED <<rvars, trace, lvars, pvars, mvars>>
    \/ EnableRead /\ UNCHANGED <<ovars, pvars, mvars>>
    \/ DisableRead /\ UNCHANGED <<ovars, pvars, mvars>>
    \/ DtorDisableSend /\ UNCHANGED <<pvars, mvars>>
    \/ DtorDisableRead /\ UNCHANGED <<pvars, mvars>>
    \/ SendWorker
    \/ ReadWorker
    \/ Joins

SpecStop ==
    /\ Init
    /\ [][NextStop]_vars
    /\ WF_vars(SendWorker)
    /\ WF_vars(ReadWorker)
    /\ WF_vars(Joins)

\* The receive loop, with the application thread calling recv_packet itself.
NextRace ==
    \/ EnableRead /\ UNCHANGED <<ovars, pvars, mvars>>
    \/ DisableRead /\ UNCHANGED <<ovars, pvars, mvars>>
    \/ JoinRead /\ UNCHANGED <<ovars, pvars, mvars>>
    \/ ReaderTest /\ UNCHANGED <<ovars, pvars, mvars>>
    \/ ReaderRecv /\ UNCHANGED <<svars, pvars, mvars>>
    \/ ReaderStore /\ UNCHANGED <<ovars, pvars, mvars>>
    \/ ReaderSleep /\ UNCHANGED <<ovars, pvars, mvars>>
    \/ AppRecvEnter /\ UNCHANGED <<pvars, mvars>>
    \/ AppRecvReturn /\ UNCHANGED <<pvars, mvars>>
    \/ RecvRace /\ UNCHANGED <<pvars, mvars>>

SpecRace == Init /\ [][NextRace]_vars

\* The two loops started and stopped, with packets queued and frames read
\* while they run (at most MaxLifeCalls recv_packet calls), and the destructor.
NextLife ==
    \/ EnableSend /\ UNCHANGED <<rvars, trace, lvars, pvars, mvars>>
    \/ DisableSend /\ UNCHANGED <<rvars, trace, lvars, pvars, mvars>>
    \/ JoinSend /\ UNCHANGED <<rvars, trace, lvars, pvars, mvars>>
    \/ SendQueued /\ UNCHANGED <<rvars, trace, lvars, pvars, mvars>>
    \/ WorkerTest /\ UNCHANGED <<rvars, trace, lvars, pvars, mvars>>
    \/ WorkerAcquire /\ UNCHANGED <<rvars, trace, lvars, pvars, mvars>>
    \/ WorkerLock /\ UNCHANGED <<rvars, trace, lvars, pvars, mvars>>
    \/ WorkerWrite /\ UNCHANGED <<rvars, trace, lvars, pvars, mvars>>
    \/ WorkerSleep /\ UNCHANGED <<rvars, trace, lvars, pvars, mvars>>
    \/ EnableRead /\ UNCHANGED <<ovars, pvars, mvars>>
    \/ DisableRead /\ UNCHANGED <<ovars, pvars, mvars>>
    \/ JoinRead /\ UNCHANGED <<ovars, pvars, mvars>>
    \/ ReaderTest /\ UNCHANGED <<ovars, pvars, mvars>>
    \/ ReaderRecv /\ Len(trace) < MaxLifeCalls /\ UNCHANGED <<svars, pvars, mvars>>
    \/ ReaderStore /\ UNCHANGED <<ovars, pvars, mvars>>
    \/ ReaderSleep /\ UNCHANGED <<ovars, pvars, mvars>>
    \/ DtorDisableSend /\ UNCHANGED <<pvars, mvars>>
    \/ DtorJoinSend /\ UNCHANGED <<pvars, mvars>>
    \/ DtorDisableRead /\ UNCHANGED <<pvars, mvars>>
    \/ DtorJoinRead /\ UNCHANGED <<pvars, mvars>>

SpecLife == Init /\ [][NextLife]_vars

\* The send side of a manager constructed with the default mode, FIFO, on
\* which set_send_mode is never called.
NextFifo ==
    \/ EnableSend /\ UNCHANGED <<rvars, trace, lvars, pvars, mvars>>
    \/ DisableSend /\ UNCHANGED <<rvars, trace, lvars, pvars, mvars>>
    \/ JoinSend /\ UNCHANGED <<rvars, trace, lvars, pvars, mvars>>
    \/ SendQueued /\ UNCHANGED <<rvars, trace, lvars, pvars, mvars>>
    \/ SendDirect /\ UNCHANGED <<rvars, trace, lvars, pvars, mvars>>
    \/ WorkerTest /\ UNCHANGED <<rvars, trace, lvars, pvars, mvars>>
    \/ WorkerAcquire /\ UNCHANGED <<rvars, trace, lvars, pvars, mvars>>
    \/ WorkerLock /\ UNCHANGED <<rvars, trace, lvars, pvars, mvars>>
    \/ WorkerWrite /\ UNCHANGED <<rvars, trace, lvars, pvars, mvars>>
    \/ WorkerSleep /\ UNCHANGED <<rvars, trace, lvars, pvars, mvars>>

SpecFifo == Init /\ [][NextFifo]_vars

\* The send side in FIFO mode with the loop, once enabled, left enabled: the
\* send worker is scheduled again and again and the transport calls it makes
\* return.
NextDrain ==
    \/ EnableSend /\ UNCHANGED <<rvars, trace, lvars, pvars, mvars>>
    \/ SendQueued /\ UNCHANGED <<rvars, trace, lvars, pvars, mvars>>
    \/ SendDirect /\ UNCHANGED <<rvars, trace, lvars, pvars, mvars>>
    \/ SendWorker

SpecDrain == Init /\ [][NextDrain]_vars /\ WF_vars(SendWorker)

Spec == SpecRecv

\* FixedPacket: load_data and unload_data on one packet.
NextPacket ==
    \/ PacketLoad /\ UNCHANGED <<rvars, trace, cvars, svars, lvars, mvars>>
    \/ PacketUnload /\ UNCHANGED <<rvars, trace, cvars, svars, lvars, mvars>>

SpecPacket == Init /\ [][NextPacket]_vars

\* FixedPacket: the whole-buffer operations on one packet.
NextBuffer ==
    \/ PacketCopyIn /\ UNCHANGED <<rvars, trace, cvars, svars, lvars, mvars>>
    \/ PacketClear /\ UNCHANGED <<rvars, trace, cvars, svars, lvars, mvars>>
    \/ PacketSetCheckByte /\ UNCHANGED <<rvars, trace, cvars, svars, lvars, mvars>>

SpecBuffer == Init /\ [][NextBuffer]_vars

\* FixedPacket: load_data, clear and set_check_byte on one packet.
NextMutate ==
    \/ PacketLoad /\ UNCHANGED <<rvars, trace, cvars, svars, lvars, mvars>>
    \/ PacketClear /\ UNCHANGED <<rvars, trace, cvars, svars, lvars, mvars>>
    \/ PacketSetCheckByte /\ UNCHANGED <<rvars, trace, cvars, svars, lvars, mvars>>

SpecMutate == Init /\ [][NextMutate]_vars

\* The steps a publisher's thread takes inside push and reset once it has
\* entered them, and the subscriber's inside pop.
PubStep(p) ==
    /\ PubWriteObj(p) \/ PubNotify(p) \/ PubResetNotify(p)
    /\ UNCHANGED <<rvars, trace, cvars, svars, lvars, pvars>>

PubSteps == \E p \in Pubs : PubStep(p)

SubSteps ==
    /\ SubCheck \/ SubWait \/ SubReacquire \/ SubPopReturn
    /\ UNCHANGED <<rvars, trace, cvars, svars, lvars, pvars>>

\* The calls on the subscriber and the publishers.
MessageCalls ==
    \/ \E p \in Pubs : PubPushLock(p)
    \/ \E p \in Pubs : PubResetRemove(p)
    \/ SubPopLock
    \/ SubSpurious

\* umt: one subscriber and its publishers, the subscriber's thread calling
\* pop, clear and set_fifo_size.
NextQueue ==
    \/ MessageCalls /\ UNCHANGED <<rvars, trace, cvars, svars, lvars, pvars>>
    \/ PubSteps
    \/ SubSteps
    \/ SubClear /\ UNCHANGED <<rvars, trace, cvars, svars, lvars, pvars>>
    \/ SetFifoSize /\ UNCHANGED <<rvars, trace, cvars, svars, lvars, pvars>>

SpecQueue == Init /\ [][NextQueue]_vars

\* umt: one subscriber calling pop and its publishers pushing and being
\* reset; every thread inside a call is scheduled until the call returns or
\* blocks.
NextPop ==
    \/ MessageCalls /\ UNCHANGED <<rvars, trace, cvars, svars, lvars, pvars>>
    \/ PubSteps
    \/ SubSteps

SpecPop ==
    /\ Init
    /\ [][NextPop]_vars
    /\ \A p \in Pubs : WF_vars(PubStep(p))
    /\ WF_vars(SubSteps)

\* ----------------------------------------------------------------- claims

\* What the claims call a structurally valid frame: Capacity bytes, the first
\* the head byte and the last the tail byte.
WellFormed(t) == Len(t) = Capacity /\ t[1] = 255 /\ t[Capacity] = 13

\* The Capacity-byte window of s that starts at index i (from 0).
Window(s, i) == SubSeq(s, i + 1, i + Capacity)

\* The start indices of the structurally valid windows of s.
Windows(s) == {i \in 0 .. (Len(s) - Capacity) : WellFormed(Window(s, i))}

\* The bytes of s after the window that starts at index i.
After(s, i) == SubSeq(s, i + Capacity + 1, Len(s))

\* A read that returned bytes.
GotBytes(n) == n > 0

\* SpecFresh: the last call and the one before it.
LastCall == trace[Len(trace)]
PrevCall == trace[Len(trace) - 1]

\* SpecFresh: the last two calls are reads of k and Capacity - k bytes, k in
\* 1 .. Capacity - 1, that together deliver one structurally valid frame, and
\* the carry-over buffer was empty before the first.
SplitFrame ==
    /\ Len(trace) >= 2
    /\ PrevCall.len0 = 0
    /\ PrevCall.n \in 1 .. (Capacity - 1)
    /\ LastCall.n = Capacity - PrevCall.n
    /\ WellFormed(PrevCall.data \o LastCall.data)

\* C1: split-frame resync.  From an empty carry-over buffer, when a valid
\* frame arrives in two reads of k and Capacity - k bytes, the first
\* recv_packet returns false and the second returns true with that frame.
C1_SplitFrameResync ==
    SplitFrame =>
        /\ PrevCall.ret = FALSE
        /\ LastCall.ret = TRUE
        /\ ret = TRUE
        /\ packet = PrevCall.data \o LastCall.data

\* C1: a split frame has been delivered and returned.
C1_Witness == SplitFrame /\ ret = TRUE /\ recv_buf_len = 0

\* SpecFresh: the last two calls are reads, the first shorter than Capacity
\* and into an empty carry-over buffer, that together deliver g bytes in which
\* no valid window starts, one valid frame, and t trailing bytes.
StreamOf2 == PrevCall.data \o LastCall.data
PrefixSuffix(g) ==
    /\ Len(trace) >= 2
    /\ PrevCall.len0 = 0
    /\ PrevCall.n \in 1 .. (Capacity - 1)
    /\ GotBytes(LastCall.n)
    /\ g \in Windows(StreamOf2)
    /\ \A i \in Windows(StreamOf2) : g <= i

\* What C2 promises of the second call for a frame that starts at g.
FramedAt(g) ==
    /\ ret = TRUE
    /\ packet = Window(StreamOf2, g)
    /\ recv_buffer = After(StreamOf2, g)
    /\ recv_buf_len = Len(StreamOf2) - g - Capacity

WasReset ==
    /\ op = "recv"
    /\ GotBytes(recv_len)
    /\ ~WellFormed(tmp_buffer)
    /\ len0 + recv_len > 2 * Capacity

\* C3: overflow reset.  A read that would take the carry-over buffer past
\* 2 * Capacity bytes discards every buffered byte (the buffer then holds the
\* new bytes alone, the call returns false), and a well-formed frame read
\* after that reset is returned.
C3_OverflowReset ==
    [][ /\ ( /\ GotBytes(recv_len')
             /\ ~WellFormed(tmp_buffer')
             /\ recv_buf_len + recv_len' > 2 * Capacity )
           => ( /\ recv_buffer' = tmp_buffer'
                /\ recv_buf_len' = recv_len'
                /\ recv_buf_len' <= Capacity
                /\ ret' = FALSE )
        /\ (WasReset /\ WellFormed(tmp_buffer'))
           => (ret' = TRUE /\ packet' = tmp_buffer')
      ]_vars

\* C3: an overflow reset has happened.
C3_Witness == WasReset /\ recv_buffer = tmp_buffer /\ ret = FALSE

\* C4: bounded carry-over buffer.  The live length stays in 0 .. 2 * Capacity
\* and no recv_packet writes the buffer at an index >= 2 * Capacity.
C4_BoundedCarryOver ==
    /\ recv_buf_len \in 0 .. (2 * Capacity)
    /\ Len(recv_buffer) = recv_buf_len
    /\ wr_hi < 2 * Capacity

\* C4: the carry-over buffer is full, its last byte written by the last call.
C4_Witness == recv_buf_len = 2 * Capacity /\ wr_hi = 2 * Capacity - 1

\* SpecFresh: every read since construction returned a well-formed frame.
AllFast == \A j \in 1 .. Len(trace) : WellFormed(trace[j].data)

\* C5: fast-path framing.  While every read returns Capacity well-formed
\* bytes, every recv_packet returns true with the bytes of its read, and the
\* carry-over live length stays 0.
C5_FastPath ==
    (trace # <<>> /\ AllFast) =>
        /\ ret = TRUE
        /\ packet = LastCall.data
        /\ recv_buf_len = 0
        /\ recv_buffer = <<>>

\* C5: two well-formed frames have been read, one after the other.
C5_Witness == Len(trace) >= 2 /\ AllFast /\ ret = TRUE

\* SpecRecv: the carry-over buffer of a step once the new read is appended
\* (the new bytes alone after an overflow reset).
Combined ==
    IF recv_buf_len + recv_len' > 2 * Capacity THEN tmp_buffer'
    ELSE recv_buffer \o tmp_buffer'

\* The smallest element of a non-empty set of numbers.
Least(S) == CHOOSE i \in S : \A j \in S : i <= j

\* C6: earliest window wins.  When the carry-over buffer with the new read
\* appended holds several valid windows, recv_packet returns the one with the
\* smallest start index i and keeps exactly the bytes after it: the live
\* length becomes the appended length - i - Capacity.
C6_EarliestWindow ==
    [][ ( /\ GotBytes(recv_len')
          /\ ~WellFormed(tmp_buffer')
          /\ Cardinality(Windows(Combined)) >= 2 )
        => ( /\ ret' = TRUE
             /\ packet' = Window(Combined, Least(Windows(Combined)))
             /\ recv_buffer' = After(Combined, Least(Windows(Combined)))
             /\ recv_buf_len' = Len(Combined) - Least(Windows(Combined)) - Capacity )
      ]_vars

\* C6: a frame was taken from the carry-over buffer, and a second valid
\* window started after its first byte.
C6_Witness ==
    /\ op = "recv"
    /\ ret = TRUE
    /\ GotBytes(recv_len)
    /\ ~WellFormed(tmp_buffer)
    /\ \E j \in 1 .. recv_buf_len : j \in Windows(packet \o recv_buffer)

\* C7: keep buffering.  A read of more than 0 bytes that is no fast-path
\* frame, does not overflow and leaves the carry-over buffer without a valid
\* window returns false; the buffer holds the previous bytes, then the new.
C7_KeepBuffering ==
    [][ ( /\ GotBytes(recv_len')
          /\ ~WellFormed(tmp_buffer')
          /\ recv_buf_len + recv_len' <= 2 * Capacity
          /\ Windows(recv_buffer \o tmp_buffer') = {} )
        => ( /\ ret' = FALSE
             /\ recv_buffer' = recv_buffer \o tmp_buffer'
             /\ recv_buf_len' = recv_buf_len + recv_len' )
      ]_vars

\* C7: bytes were appended behind buffered bytes, and no frame was found.
C7_Witness ==
    /\ op = "recv"
    /\ ret = FALSE
    /\ GotBytes(recv_len)
    /\ len0 > 0
    /\ recv_buf_len = len0 + recv_len

\* C8: read failure.  When the read returns 0 or a negative value,
\* recv_packet calls close, then open, once each, returns false, hands the
\* caller no frame and leaves the carry-over buffer as it was.
C8_ReadFailure ==
    [][ (op' = "recv" /\ recv_len' \in {-1, 0})
        => ( /\ calls' = <<"read", "close", "open">>
             /\ ret' = FALSE
             /\ packet' \in PacketIn
             /\ recv_buffer' = recv_buffer
             /\ recv_buf_len' = recv_buf_len )
      ]_vars

\* C8: a read failed while the carry-over buffer held bytes.
C8_Witness ==
    /\ op = "recv"
    /\ recv_len \in {-1, 0}
    /\ recv_buf_len > 0
    /\ ret = FALSE

\* SpecSend: the packet of the most recent send_packet call (0: none yet).
LastSent == nsent

C10_AsClaimed ==
    send_mode = "LIMITED_FIFO" =>
        /\ Len(realtime_packets) <= max_queue_size
        /\ realtime_packets # <<>> =>
               realtime_packets[Len(realtime_packets)] = last_queued
        /\ \A i \in 1 .. (Len(realtime_packets) - 1) :
               realtime_packets[i] < realtime_packets[i + 1]

\* SpecSend, SpecFifo: the packet the send worker has popped and not yet
\* handed to the transport.
InFlight == IF send_thread = "write" THEN <<wpacket>> ELSE <<>>

\* SpecSend, SpecFifo: a step is a send_packet call that queued its packet.
QueuedStep == nsent' = nsent + 1 /\ use_realtime_send

\* C11: FIFO mode.  With the send loop active and the mode FIFO, send_packet
\* appends its packet to the tail of the queue and removes nothing, and the
\* worker hands the packets to the transport write in the order they were
\* queued: those written, the one in flight and those still queued are, in
\* that order, the packets that were queued.
C11_Fifo ==
    /\ [](send_mode = "FIFO" => wsent \o InFlight \o realtime_packets = queued)
    /\ [][ (QueuedStep /\ send_mode = "FIFO")
           => realtime_packets' = Append(realtime_packets, nsent') ]_vars

\* C11: the worker has written two packets and a third is queued behind them.
C11_Witness ==
    /\ send_mode = "FIFO"
    /\ Len(wsent) = 2
    /\ realtime_packets = <<3>>
    /\ queued = <<1, 2, 3>>

\* C12: fire-and-forget send.  While the send loop is enabled, send_packet
\* returns true once its packet is queued, whatever the transport does, and
\* makes no transport call (write, close, open) on the caller's thread.
C12_FireAndForget ==
    [][ QueuedStep
        => ( /\ ret' = TRUE
             /\ calls' = <<>>
             /\ wire' = wire
             /\ queued' = Append(queued, nsent') ) ]_vars

\* C12: a send_packet queued its packet and returned true after a write of
\* the worker had failed and made it reconnect.
C12_Witness ==
    /\ op = "send"
    /\ use_realtime_send
    /\ last_queued = nsent
    /\ nsent >= 2
    /\ ret = TRUE
    /\ calls = <<>>
    /\ wcalls = <<"write", "close", "open">>

\* SpecSend: a step is a send_packet call made with the send loop disabled.
SyncStep == nsent' = nsent + 1 /\ ~use_realtime_send

\* C13: reconnect on synchronous send failure.  With the send loop disabled,
\* a write that returns a count other than Capacity makes send_packet return
\* false and call close, then open, once each; a write that returns Capacity
\* makes it return true and call neither.
C13_SyncSendReconnect ==
    [][ SyncStep
        => ( /\ wres' = "short"
                => (ret' = FALSE /\ calls' = <<"write", "close", "open">>)
             /\ wres' = "ok"
                => (ret' = TRUE /\ calls' = <<"write">>)
             /\ wire' = Append(wire, nsent') ) ]_vars

\* C13: a synchronous send_packet met a short write, after one that did not.
C13_Witness ==
    /\ op = "send"
    /\ ~use_realtime_send
    /\ nsent >= 2
    /\ wire = <<1, 2>>
    /\ wres = "short"
    /\ ret = FALSE
    /\ calls = <<"write", "close", "open">>

\* SpecSend: a step is a set_send_mode call.
SetStep == op' = "set_send_mode" /\ send_thread' = send_thread /\ app' = app

\* The last n elements of q (all of q when it has fewer).
Newest(q, n) == IF Len(q) <= n THEN q ELSE SubSeq(q, Len(q) - n + 1, Len(q))

\* C14: set_send_mode re-normalises the queue.  Switching to LATEST_ONLY
\* leaves the newest queued packet alone (an empty queue stays empty),
\* switching to LIMITED_FIFO with bound N leaves the N newest in order,
\* switching to FIFO leaves the queue as it was; afterwards the queue meets
\* the length bound of the new mode.
C14_SetSendMode ==
    [][ SetStep
        => ( /\ send_mode' = "LATEST_ONLY"
                => ( /\ realtime_packets' = Newest(realtime_packets, 1)
                     /\ Len(realtime_packets') <= 1 )
             /\ send_mode' = "LIMITED_FIFO"
                => ( /\ realtime_packets' = Newest(realtime_packets, max_queue_size')
                     /\ Len(realtime_packets') <= max_queue_size' )
             /\ send_mode' = "FIFO"
                => realtime_packets' = realtime_packets ) ]_vars

\* C14: three packets were queued, none was taken by the worker, and a
\* set_send_mode to LIMITED_FIFO with bound 0 has emptied the queue.
C14_Witness ==
    /\ op = "set_send_mode"
    /\ send_mode = "LIMITED_FIFO"
    /\ max_queue_size = 0
    /\ realtime_packets = <<>>
    /\ queued = <<1, 2, 3>>
    /\ wsent = <<>>
    /\ InFlight = <<>>
    /\ ~ub

\* SpecLife: no send worker, no receive worker.
NoSendWorker == send_thread = "none"
NoReadWorker == read_thread = "none"

\* SpecLife: the destructor is past its enable_realtime_send(false).
DtorPastSend == app \in {"dtor_read", "dtor_join_read", "gone"}

\* C15: synchronous disable.  Once enable_realtime_send(false) has returned,
\* in a call of the application or in the destructor, the send worker has
\* exited and neither touches the queue nor writes to the transport; once
\* enable_realtime_read(false) has returned, the receive worker has exited
\* and neither reads, reconnects, updates the carry-over buffer nor writes
\* the cached latest packet.
C15_SynchronousDisable ==
    /\ []( /\ (app = "idle" /\ ~use_realtime_send) => NoSendWorker
           /\ (app = "idle" /\ ~use_realtime_read) => NoReadWorker
           /\ DtorPastSend => NoSendWorker
           /\ app = "gone" => NoReadWorker )
    /\ [][ /\ (NoSendWorker /\ ~use_realtime_send')
              => UNCHANGED <<realtime_packets, wsent, wire, wcalls>>
           /\ (NoReadWorker /\ ~use_realtime_read')
              => UNCHANGED <<rvars, trace, latest_packet, stored>> ]_vars

\* C15: the destructor has run after the send worker wrote a packet and the
\* receive worker stored a frame; a queued packet was left unwritten.
C15_Witness ==
    /\ app = "gone"
    /\ wsent # <<>>
    /\ stored # <<>>
    /\ realtime_packets # <<>>

\* SpecLife: a step is a call of the application named o.
CallStep(o) == op' = o /\ op # o

\* C16: idempotent start/stop.  enable_realtime_send(b) and
\* enable_realtime_read(b) change nothing when the loop is already in state
\* b; a worker is only created when none exists; between the calls of the
\* application a worker exists iff its enable flag is set.
C16_IdempotentStartStop ==
    /\ []( app = "idle"
           => ( /\ use_realtime_send <=> ~NoSendWorker
                /\ use_realtime_read <=> ~NoReadWorker ) )
    /\ [][ /\ (CallStep("enable_send") /\ use_realtime_send)
              => UNCHANGED <<svars, lvars, rvars, trace>>
           /\ (CallStep("disable_send") /\ ~use_realtime_send)
              => UNCHANGED <<svars, lvars, rvars, trace>>
           /\ (CallStep("enable_read") /\ use_realtime_read)
              => UNCHANGED <<svars, lvars, rvars, trace>>
           /\ (CallStep("disable_read") /\ ~use_realtime_read)
              => UNCHANGED <<svars, lvars, rvars, trace>>
           /\ (use_realtime_send' /\ ~use_realtime_send)
              => (NoSendWorker /\ send_thread' = "test")
           /\ (use_realtime_read' /\ ~use_realtime_read)
              => (NoReadWorker /\ read_thread' = "test") ]_vars

\* C16: enable_realtime_send(true) was called while the send worker, started
\* by an earlier call, sat in its write, and the receive loop had been
\* started, stopped and started again.
C16_Witness ==
    /\ op = "enable_send"
    /\ use_realtime_send
    /\ send_thread = "write"
    /\ use_realtime_read
    /\ stored # <<>>
    /\ read_thread = "test"

\* C17: the send worker never holds the send-queue lock inside a transport
\* write or the reconnect after it.  It takes at most one packet under the
\* lock and releases the lock first, so that send_packet and set_send_mode
\* can always run while the worker is in its write.
C17_NoLockDuringWrite ==
    /\ []( send_thread = "write"
           => ( /\ send_mut = "free"
                /\ app = "idle" => ENABLED SetSendMode
                /\ (app = "idle" /\ use_realtime_send /\ nsent < MaxSends)
                   => ENABLED SendQueued ) )
    /\ [][ (send_mut = "worker" /\ send_mut' = "free")
           => ( /\ realtime_packets' \in {realtime_packets, Pop(realtime_packets)}
                /\ send_thread' \in {"write", "sleep"} ) ]_vars

\* C17: the third packet was queued in LATEST_ONLY mode while the worker was
\* in the write of the first, which it had taken before; the second was
\* dropped from the queue.
C17_Witness ==
    /\ send_thread = "write"
    /\ wpacket = 1
    /\ wsent = <<>>
    /\ op = "send"
    /\ send_mode = "LATEST_ONLY"
    /\ queued = <<1, 2, 3>>
    /\ realtime_packets = <<3>>

\* SpecRead: a step is a get_latest_packet call.
GetStep == op' = "get_latest" /\ read_thread' = read_thread /\ app' = app

\* SpecRead: the optional that holds the last stored packet.
LastStored == IF stored = <<>> THEN <<>> ELSE <<stored[Len(stored)]>>

WorkerRecvStep == read_thread = "recv" /\ read_thread' # "recv"

\* C19: receive loop caching.  Every packet for which the worker's
\* recv_packet returned true is stored as the latest packet, in framing
\* order, a failed recv_packet leaves the cache alone, and get_latest_packet
\* returns the most recently stored frame, never an older one after a newer.
C19_ReceiveLoopCaching ==
    /\ []( /\ Len(stored) <= Len(framed)
           /\ stored = SubSeq(framed, 1, Len(stored))
           /\ Len(framed) - Len(stored) = (IF read_thread = "store" THEN 1 ELSE 0)
           /\ latest_packet = LastStored )
    /\ [][ /\ WorkerRecvStep
              => ( /\ latest_packet' = latest_packet
                   /\ ret' => (framed' = Append(framed, packet') /\ read_thread' = "store")
                   /\ ~ret' => framed' = framed )
           /\ GetStep => (got' = LastStored /\ got_n' >= got_n) ]_vars

\* C19: the worker framed and stored two different packets, and
\* get_latest_packet returned the second.
C19_Witness ==
    /\ Len(stored) = 2
    /\ stored[1] # stored[2]
    /\ op = "get_latest"
    /\ got = <<stored[2]>>

\* A field of len bytes at index lies in the payload of a FixedPacket<PacketCap>.
ValidField(index, len) ==
    /\ len <= PacketCap - 3
    /\ index >= 1
    /\ index + len <= PacketCap - 2

\* The positions of _buffer (from 1) a field covers.
FieldAt(index, len) == {i \in 1 .. PacketCap : index + 1 <= i /\ i <= index + len}

\* C20: payload round-trip.  load_data of a field of at most PacketCap - 3
\* bytes at a valid offset succeeds and changes no byte outside the field;
\* unload_data of the same size at the same offset, on the packet or on one
\* rebuilt from its buffer with copy_from, succeeds and returns the bytes
\* that were loaded there, whatever was loaded elsewhere in between.
C20_PayloadRoundTrip ==
    [][ /\ (pcall'.name = "load" /\ ValidField(pcall'.index, pcall'.len))
           => ( /\ pret' = "true"
                /\ \A i \in (1 .. PacketCap) \ FieldAt(pcall'.index, pcall'.len) :
                       pbuf'[i] = pbuf[i]
                /\ \A i \in FieldAt(pcall'.index, pcall'.len) :
                       <<pbuf'[i]>> = shadow'[i] )
        /\ (pcall'.name = "unload" /\ ValidField(pcall'.index, pcall'.len))
           => ( /\ pret' = "true"
                /\ pbuf' = pbuf
                /\ Len(pout') = pcall'.len
                /\ \A k \in 1 .. pcall'.len :
                       shadow[pcall'.index + k] # <<>>
                       => <<pout'[k]>> = shadow[pcall'.index + k] ) ]_vars

\* C20: two one-byte fields were loaded side by side, the second after the
\* first, and the first was unloaded from a rebuilt packet with its byte.
C20_Witness ==
    /\ pcall = [name |-> "unload", index |-> 1, len |-> 1, rebuilt |-> TRUE]
    /\ pret = "true"
    /\ shadow[2] = <<HEAD_BYTE>>
    /\ shadow[3] = <<TAIL_BYTE>>
    /\ pout = <<HEAD_BYTE>>

\* The bounds rule for a field of s bytes at offset o, in the arithmetic of
\* the index type.
InBounds(o, s) == o > 0 /\ (o + s) % SizeModulus < PacketCap - 1

C22_AsClaimed ==
    [][ (pcall'.name \in {"load", "unload"} /\ pcall'.index >= PacketCap - 1)
        => ( /\ pret' = "nullopt"
             /\ ~MemcpyOutside(pcall'.index, pcall'.len) ) ]_vars

\* C22: what holds of the same offsets when o + s does not wrap.
C22_NoWrap ==
    [][ ( /\ pcall'.name \in {"load", "unload"}
          /\ pcall'.index >= PacketCap - 1
          /\ pcall'.index + pcall'.len < SizeModulus )
        => ( /\ pret' = "nullopt"
             /\ ~MemcpyOutside(pcall'.index, pcall'.len) ) ]_vars

\* C23: clear() zeroes every byte at indices 1 .. Capacity-2 and leaves byte
\* 0 and byte Capacity-1 as they were; clearing again changes nothing; and a
\* cleared valid packet equals a default-constructed one.
C23_Clear ==
    [][ pcall'.name = "clear"
        => ( /\ \A i \in 2 .. (PacketCap - 1) : pbuf'[i] = 0
             /\ pbuf'[1] = pbuf[1]
             /\ pbuf'[PacketCap] = pbuf[PacketCap]
             /\ Clear(pbuf') = pbuf'
             /\ (pbuf[1] = 255 /\ pbuf[PacketCap] = 13) => pbuf' = NewPacket ) ]_vars

\* C23: a packet whose head and tail had been swapped through copy_from was
\* cleared: the swapped head and tail are still there.
C23_Witness ==
    /\ pcall.name = "clear"
    /\ pbuf = <<TAIL_BYTE, 0, 0, 0, HEAD_BYTE>>

\* First byte 0xFF and last byte 0x0D.
HeadTail(w) == w[1] = 255 /\ w[Len(w)] = 13

\* Two windows of one length that differ at most in the payload bytes and
\* the check byte.
SameFraming(w1, w2) ==
    Len(w1) = Len(w2) /\ w1[1] = w2[1] /\ w1[Len(w1)] = w2[Len(w2)]

\* C24: head and tail are the only validity test.  A recv_packet whose read
\* delivered bytes returns true iff the bytes it examined (the Capacity bytes
\* read, or else the carry-over buffer with the read appended) hold a
\* Capacity-byte window with first byte 0xFF and last byte 0x0D, and the
\* packet it returns is such a window and is_valid; a read of Capacity bytes
\* is returned as read iff its first byte is 0xFF and its last 0x0D; and any
\* window that differs from the bytes read only in payload or check byte is
\* accepted by check_packet, and is_valid, exactly when they are.
C24_HeadTailOnly ==
    /\ [][ GotBytes(recv_len')
           => ( /\ ret' = TRUE <=> ( \/ (recv_len' = Capacity /\ HeadTail(tmp_buffer'))
                                     \/ \E i \in 0 .. (Len(Combined) - Capacity) :
                                            HeadTail(Window(Combined, i)) )
                /\ ret' = TRUE => (HeadTail(packet') /\ IsValid(packet'))
                /\ recv_len' = Capacity
                   => ((ret' = TRUE /\ packet' = tmp_buffer') <=> HeadTail(tmp_buffer')) )
         ]_vars
    /\ [](Len(tmp_buffer) = Capacity
          => \A w \in [1 .. Capacity -> Byte] :
                SameFraming(tmp_buffer, w)
                => ( /\ CheckPacket(w, 0, Capacity) <=> CheckPacket(tmp_buffer, 0, Capacity)
                     /\ CheckPacket(w, 0, Capacity) <=> HeadTail(w)
                     /\ IsValid(CopyFrom(w, 0)) <=> IsValid(CopyFrom(tmp_buffer, 0))
                     /\ IsValid(CopyFrom(w, 0)) <=> HeadTail(w) ))

\* C24: a read of Capacity bytes with head, tail and a check byte that is not
\* 0 was returned as a frame.
C24_Witness ==
    /\ op = "recv"
    /\ ret = TRUE
    /\ tmp_buffer = [i \in 1 .. Capacity |->
                        IF i = 1 THEN HEAD_BYTE ELSE IF i = Capacity THEN TAIL_BYTE ELSE HEAD_BYTE]
    /\ packet = tmp_buffer

\* SpecFault: a send_packet or recv_packet call in which a transport call
\* threw.
FaultStep ==
    /\ threw' # "none"
    /\ (Len(trace') = Len(trace) + 1 \/ nsent' = nsent + 1)

\* C25: transport exceptions never cross the public API.  A send_packet or
\* recv_packet call in which the transport's read, write or open throws
\* returns false and leaves the send queue, the carry-over buffer with its
\* live length and the cached packet as they were.
C25_ExceptionsCaught ==
    [][ FaultStep
        => ( /\ op' \in {"send", "recv"}
             /\ ret' = FALSE
             /\ recv_buffer' = recv_buffer
             /\ recv_buf_len' = recv_buf_len
             /\ realtime_packets' = realtime_packets
             /\ latest_packet' = latest_packet ) ]_vars

\* C25: with a frame cached and a byte in the carry-over buffer, the write
\* of a synchronous send_packet threw, and the call returned false.
C25_Witness ==
    /\ op = "send"
    /\ threw = "write"
    /\ ret = FALSE
    /\ latest_packet # <<>>
    /\ recv_buf_len > 0

\* C26: disable terminates.  With the workers scheduled and every transport
\* call returning, enable_realtime_send(false) and enable_realtime_read(false)
\* that wait for their worker, by the application or by the destructor,
\* return in the end, whatever the queue holds and whatever the transport
\* does.
C26_DisableTerminates ==
    /\ (app = "join") ~> (app = "idle" /\ send_thread = "none")
    /\ (app = "join_read") ~> (app = "idle" /\ read_thread = "none")
    /\ (app = "dtor_join_send") ~> (app = "dtor_read" /\ send_thread = "none")
    /\ (app = "dtor_join_read") ~> (app = "gone" /\ read_thread = "none")

\* C26: enable_realtime_send(false) has returned with a packet still queued,
\* after a write of the worker that failed.
C26_Witness ==
    /\ op = "disable_send"
    /\ app = "idle"
    /\ send_thread = "none"
    /\ realtime_packets # <<>>
    /\ wcalls = <<"write", "close", "open">>

\* At most one thread inside the transport's write: while the send worker is
\* in simple_send_packet the application thread cannot be (its send_packet
\* queues, or it waits in a join).
SingleWriter ==
    send_thread = "write" => (use_realtime_send \/ app \in {"join", "dtor_join_send"})

\* C27 as claimed: at most one thread is inside the transport's write, and
\* at most one inside the transport's read and the carry-over buffer update
\* of recv_packet, in every interleaving of one application thread with the
\* enabled loops.
C27_AsClaimed == [](SingleWriter /\ ~Racing)

\* C27: the half about the writer, with the send loop and synchronous sends.
C27_SingleWriter == [](SingleWriter /\ (ENABLED SendDirect => send_thread = "none"))

\* C28: the fast path leaves the carry-over state alone.  Whenever a read
\* returns exactly Capacity bytes with valid head and tail, recv_packet
\* returns true with those bytes as the packet, and the carry-over buffer and
\* its live length are what they were before the call, empty or not.
C28_FastPathFrame ==
    [][ (op' = "recv" /\ recv_len' = Capacity /\ HeadTail(tmp_buffer'))
        => ( /\ ret' = TRUE
             /\ packet' = tmp_buffer'
             /\ recv_buffer' = recv_buffer
             /\ recv_buf_len' = recv_buf_len ) ]_vars

\* C28: a well-formed read of Capacity bytes was returned while the
\* carry-over buffer held bytes, which it still holds.
C28_Witness ==
    /\ op = "recv"
    /\ recv_len = Capacity
    /\ HeadTail(tmp_buffer)
    /\ ret = TRUE
    /\ packet = tmp_buffer
    /\ len0 > 0
    /\ recv_buf_len = len0

\* C29: no frame is left behind.  After every recv_packet call, whatever it
\* returned, the live part of the carry-over buffer holds no Capacity-byte
\* window with valid head and tail; and after a call that took its frame
\* from the carry-over buffer fewer than Capacity bytes stay live.
C29_NoFrameLeftBehind ==
    /\ [](/\ Len(recv_buffer) = recv_buf_len
          /\ \A i \in 0 .. (recv_buf_len - Capacity) : ~HeadTail(Window(recv_buffer, i)))
    /\ [][ ( /\ op' = "recv"
             /\ ret' = TRUE
             /\ ~(recv_len' = Capacity /\ HeadTail(tmp_buffer')) )
           => recv_buf_len' < Capacity ]_vars

\* C29: a frame was taken from the carry-over buffer and Capacity - 1 bytes
\* that followed it stay live.
C29_Witness ==
    /\ op = "recv"
    /\ ret = TRUE
    /\ ~(recv_len = Capacity /\ HeadTail(tmp_buffer))
    /\ recv_buf_len = Capacity - 1
    /\ recv_buffer[1] = HEAD_BYTE

\* SpecStream: the calls that returned a packet, as indices of trace.
Emitting == {c \in 1 .. Len(trace) : trace[c].ret = TRUE}

\* SpecStream: the packet of call c is made of Capacity bytes that were
\* adjacent, in that order, in the stream.
Contiguous(c) ==
    /\ Len(trace[c].out) = Capacity
    /\ \A k \in 1 .. Capacity : trace[c].packet[k] = trace[Len(trace)].stream[trace[c].out[k]]
    /\ \A k \in 1 .. (Capacity - 1) : trace[c].out[k + 1] = trace[c].out[k] + 1

\* SpecStream: the packets of calls c < d share no byte of the stream, and
\* the first byte of c's came first.
InStreamOrder(c, d) ==
    /\ \A k, l \in 1 .. Capacity : trace[c].out[k] # trace[d].out[l]
    /\ trace[c].out[1] < trace[d].out[1]

\* SpecStream: the carry-over buffer is the bytes of the stream at pos.
PosTracksBuffer ==
    trace # <<>> =>
        /\ Len(trace[Len(trace)].pos) = recv_buf_len
        /\ \A k \in 1 .. recv_buf_len :
               recv_buffer[k] = trace[Len(trace)].stream[trace[Len(trace)].pos[k]]

\* C30 as claimed: every packet a successful recv_packet returns consists of
\* Capacity bytes that were adjacent, in that order, in the byte stream the
\* transport delivered; no delivered byte is part of two returned packets;
\* and packets are returned in the order of their first bytes in the stream.
C30_AsClaimed ==
    /\ PosTracksBuffer
    /\ \A c \in Emitting : Contiguous(c)
    /\ \A c, d \in Emitting : c < d => InStreamOrder(c, d)

\* C30: what holds of every returned packet: its bytes are bytes of the
\* stream, in stream order, and no byte is part of two packets.
C30_BytesOfTheStream ==
    /\ PosTracksBuffer
    /\ \A c \in Emitting :
        /\ Len(trace[c].out) = Capacity
        /\ \A k \in 1 .. Capacity : trace[c].packet[k] = trace[Len(trace)].stream[trace[c].out[k]]
        /\ \A k \in 1 .. (Capacity - 1) : trace[c].out[k] < trace[c].out[k + 1]
    /\ \A c, d \in Emitting :
        c < d => \A k, l \in 1 .. Capacity : trace[c].out[k] # trace[d].out[l]

\* C30: the claim holds as long as no fast-path frame was returned while the
\* carry-over buffer held bytes.
C30_WithoutStaleBytes ==
    (\A c \in Emitting : (trace[c].n = Capacity /\ HeadTail(trace[c].data)) => trace[c].len0 = 0)
    => ( /\ \A c \in Emitting : Contiguous(c)
         /\ \A c, d \in Emitting : c < d => InStreamOrder(c, d) )

\* SpecRecv: the step is the second of two recv_packet calls whose reads, of
\* k and Capacity - k bytes, deliver one structurally valid frame.
SplitAcross ==
    /\ op = "recv"
    /\ op' = "recv"
    /\ recv_len \in 1 .. (Capacity - 1)
    /\ recv_len' = Capacity - recv_len
    /\ HeadTail(tmp_buffer \o tmp_buffer')

\* C31 as claimed: whatever the carry-over buffer held before them, a valid
\* frame delivered across two reads of k and Capacity - k bytes is returned,
\* byte for byte, by one of the two recv_packet calls that consume them.
C31_AsClaimed ==
    [][ SplitAcross
        => ( \/ (ret = TRUE /\ packet = tmp_buffer \o tmp_buffer')
             \/ (ret' = TRUE /\ packet' = tmp_buffer \o tmp_buffer') ) ]_vars

\* C31, amended: the same, provided the carry-over buffer held at most
\* Capacity bytes before the two reads (neither read overflows it) and those
\* bytes followed by the frame hold no valid window other than the frame:
\* the first call returns false, the second returns the frame and leaves the
\* carry-over buffer empty.
C31_SplitFrameAnyState ==
    [][ ( /\ SplitAcross
          /\ len0 <= Capacity
          /\ ret = FALSE
          /\ Windows(recv_buffer \o tmp_buffer') = {len0} )
        => ( /\ ret' = TRUE
             /\ packet' = tmp_buffer \o tmp_buffer'
             /\ recv_buf_len' = 0 ) ]_vars

\* C31: the second part of a frame was read while the carry-over buffer held
\* Capacity bytes before the first part, and the frame was returned.
C31_Witness ==
    /\ op = "recv"
    /\ ret = TRUE
    /\ recv_len \in 1 .. (Capacity - 1)
    /\ len0 = 2 * Capacity - recv_len
    /\ SubSeq(packet, Capacity - recv_len + 1, Capacity) = tmp_buffer
    /\ recv_buf_len = 0

\* C32: only structurally valid packets leave the receive side.  Every
\* packet a recv_packet call that returns true writes to its output argument,
\* every packet the receive worker caches, and every packet
\* get_latest_packet returns has first byte 0xFF and last byte 0x0D.
C32_ValidPacketsOnly ==
    /\ []( /\ \A j \in 1 .. Len(framed) : HeadTail(framed[j])
           /\ \A j \in 1 .. Len(latest_packet) : HeadTail(latest_packet[j])
           /\ \A j \in 1 .. Len(got) : HeadTail(got[j]) )
    /\ [][ /\ (WorkerRecvStep /\ ret' = TRUE)
              => (Len(packet') = Capacity /\ HeadTail(packet'))
           /\ (GetStep /\ got' # <<>>)
              => (Len(got'[1]) = Capacity /\ HeadTail(got'[1])) ]_vars

\* C32: get_latest_packet returned a frame the worker had taken from the
\* carry-over buffer after two short reads, with a check byte that is not 0.
C32_Witness ==
    /\ op = "get_latest"
    /\ Len(trace) = 2
    /\ trace[1].ret = FALSE
    /\ trace[2].n < Capacity
    /\ trace[2].ret = TRUE
    /\ got = <<packet>>
    /\ packet[Capacity - 1] # 0

\* C33: a recv_packet call that returns false, whether the read failed, no
\* valid window was found or an exception was caught, leaves the caller's
\* output packet byte for byte as it was when the call was made.
C33_FalseLeavesPacket ==
    [][ (op' = "recv" /\ ret' = FALSE) => packet' = arg' ]_vars

\* C33: a call that was handed a packet holding an earlier frame found no
\* valid window in the bytes it read and returned false.
C33_Witness ==
    /\ op = "recv"
    /\ ret = FALSE
    /\ GotBytes(recv_len)
    /\ arg # DefaultPacket
    /\ packet = arg

\* C34 as claimed: wire order equals acceptance order.  In FIFO mode,
\* however send_packet calls are interleaved with enable_realtime_send(true)
\* and enable_realtime_send(false), the packets are handed to the transport
\* write in the order in which send_packet accepted them: no packet is
\* written before one that was accepted earlier.
C34_AsClaimed ==
    send_mode = "FIFO" =>
        \A i, j \in 1 .. Len(wire) : i < j => wire[i] < wire[j]

\* C34: what holds of the wire order is the order within each path: the
\* packets the worker wrote are in the order they were queued, and the
\* packets written synchronously are in the order of their calls.
C34_OrderPerPath ==
    send_mode = "FIFO" =>
        /\ \A i, j \in 1 .. Len(wsent) : i < j => wsent[i] < wsent[j]
        /\ LET IsSync(k) == \A q \in 1 .. Len(queued) : queued[q] # wire[k]
           IN  \A i, j \in 1 .. Len(wire) :
                   (i < j /\ IsSync(i) /\ IsSync(j)) => wire[i] < wire[j]

\* SpecFifo: a step is an enable_realtime_send(false) call up to its join, or
\* the return of that join.
DisableStep == op' = "disable_send" /\ send_thread' = send_thread /\ app = "idle"
JoinStep == app = "join" /\ app' = "idle"

\* SpecFifo: the send loop is disabled and no worker exists.
SendDisabled == ~use_realtime_send /\ send_thread = "none" /\ app = "idle"

\* C35: disabling the send loop does not touch the queue.  The call and the
\* return of its join leave the queue as it is and write nothing; while the
\* loop is disabled every queued packet the worker has not written is still
\* in the queue, in order; a synchronous send_packet writes its own packet
\* and leaves the queue alone; and the worker of the next enable pops the
\* oldest packet left in the queue before any other.
C35_DisableKeepsQueue ==
    /\ [](SendDisabled => wsent \o realtime_packets = queued)
    /\ [][ /\ (DisableStep \/ JoinStep)
              => (realtime_packets' = realtime_packets /\ wire' = wire)
           /\ (SendDisabled /\ nsent' = nsent + 1)
              => ( /\ realtime_packets' = realtime_packets
                   /\ wire' = Append(wire, nsent')
                   /\ queued' = queued )
           /\ (send_thread = "locked" /\ send_thread' = "write")
              => ( /\ wpacket' = queued[Len(wsent) + 1]
                   /\ realtime_packets' = Pop(realtime_packets) ) ]_vars

\* C35: a packet was left in the queue by a disable, the next send_packet
\* wrote its own packet, and after the loop was enabled again the worker
\* wrote the packet left behind before the one queued after the enable.
C35_Witness ==
    /\ wire = <<2, 1>>
    /\ queued = <<1, 3>>
    /\ wsent = <<1>>
    /\ realtime_packets = <<3>>

\* No element of s occurs in it twice.
NoDup(s) == \A i, j \in 1 .. Len(s) : s[i] = s[j] => i = j

\* C36: at-most-once transmission.  The worker hands the packet it popped to
\* the transport write once, whether the write succeeds, is short or throws,
\* and goes back to its loop test without putting the packet back; no packet
\* is written twice, and none is both written (or being written) and queued.
C36_AtMostOnce ==
    /\ [](NoDup(wire) /\ NoDup(wsent \o InFlight \o realtime_packets))
    /\ [][ (send_thread = "write" /\ send_thread' # "write")
           => ( /\ wire' = Append(wire, wpacket)
                /\ wsent' = Append(wsent, wpacket)
                /\ realtime_packets' = realtime_packets
                /\ send_thread' = "test" ) ]_vars

\* C36: the write of the only packet queued failed, and the worker, back in
\* its loop, found the queue empty.
C36_Witness ==
    /\ send_thread = "sleep"
    /\ queued = <<1>>
    /\ wsent = <<1>>
    /\ wire = <<1>>
    /\ wcalls # <<"write">>

\* C37: queue drain liveness.  In FIFO mode, with the send loop left enabled,
\* the worker scheduled fairly and every transport call returning, every
\* packet send_packet queued is in the end handed to the transport write, and
\* unless the application sends again the queue becomes empty.
C37_QueueDrains ==
    /\ \A k \in 1 .. MaxSends :
           (\E q \in 1 .. Len(queued) : queued[q] = k)
               ~> (\E i \in 1 .. Len(wsent) : wsent[i] = k)
    /\ \A n \in 0 .. MaxSends :
           (use_realtime_send /\ nsent = n)
               ~> ((realtime_packets = <<>> /\ wsent = queued) \/ nsent > n)

\* C37: three packets were queued while the worker had written none, and the
\* worker has written all three.
C37_Witness ==
    /\ use_realtime_send
    /\ queued = <<1, 2, 3>>
    /\ wsent = queued
    /\ realtime_packets = <<>>
    /\ send_thread = "sleep"

\* SpecMutate: a step leaves byte 0 and byte Capacity - 1 of the packet as
\* they were.
HeadTailKept == pbuf'[1] = pbuf[1] /\ pbuf'[PacketCap] = pbuf[PacketCap]

\* C38 as claimed: head and tail are preserved by the packet mutators.
\* load_data, with any offset and any size, set_check_byte and clear leave
\* byte 0 and byte Capacity - 1 as they were, and load_data leaves the check
\* byte at Capacity - 2 as it was; only copy_from can change head or tail.
C38_AsClaimed ==
    [][ /\ pcall'.name # "copy_from" => HeadTailKept
        /\ pcall'.name = "load" => pbuf'[PacketCap - 1] = pbuf[PacketCap - 1] ]_vars

\* C38: the same holds of every call whose memcpy stays inside the buffer.
C38_InsideBuffer ==
    [][ ~MemcpyOutside(pcall'.index, pcall'.len)
        => ( /\ pcall'.name # "copy_from" => HeadTailKept
             /\ pcall'.name = "load" => pbuf'[PacketCap - 1] = pbuf[PacketCap - 1] ) ]_vars

\* SpecQueue, SpecPop: the queue holds no more than fifo_size messages, where
\* fifo_size is not 0.
Bounded == fifo_size > 0 => Len(fifo) <= fifo_size

\* SpecQueue, SpecPop: a step is a write_obj.
WriteStep == npush' = npush + 1

\* What C39 says of the order and of a single write_obj: a message written
\* to a full queue replaces the oldest one, with fifo_size 0 nothing is ever
\* removed, and pop returns the messages in the order they were published.
QueueOrder ==
    /\ [](\A i, j \in 1 .. Len(popped) : i < j => popped[i] < popped[j])
    /\ [][ /\ (WriteStep /\ fifo_size > 0 /\ Len(fifo) = fifo_size)
              => fifo' = Append(Pop(fifo), npush')
           /\ (WriteStep /\ (fifo_size = 0 \/ Len(fifo) < fifo_size))
              => fifo' = Append(fifo, npush')
           /\ Len(popped') = Len(popped) + 1
              => (popped' = Append(popped, Head(fifo)) /\ fifo' = Pop(fifo)) ]_vars

\* C39 as claimed: the subscriber's bounded queue.  With fifo_size > 0 the
\* queue never holds more than fifo_size messages after any sequence of
\* push, pop, clear and set_fifo_size calls, a message published to a full
\* queue replaces the oldest one, and messages are popped in publish order;
\* fifo_size 0 means the queue is unlimited.
C39_AsClaimed == []Bounded /\ QueueOrder

\* C39: the same with the bound kept by every call but set_fifo_size: a step
\* that leaves fifo_size alone takes a queue within the bound to a queue
\* within the bound.
C39_ExceptResize ==
    /\ [][ (Bounded /\ fifo_size' = fifo_size) => Bounded' ]_vars
    /\ QueueOrder

\* SpecPop: the subscriber's thread is inside pop.
InPop == sub_pc # "idle"

\* C40 as claimed: pop never blocks forever once it can complete.  With
\* every thread scheduled fairly, a subscriber inside pop returns once a
\* message is in its queue, and throws MessageError_Stopped once the last
\* publisher bound to the message has been reset: no wake-up is lost between
\* the predicate check and the wait.
C40_AsClaimed ==
    /\ (InPop /\ fifo # <<>>) ~> ~InPop
    /\ (InPop /\ pubs = {}) ~> (~InPop /\ pop_ret = "stopped")

\* C40: the half that holds: a subscriber inside pop with a message in its
\* queue leaves pop, with the message or with MessageError_Stopped.
C40_PushWakes == (InPop /\ fifo # <<>>) ~> ~InPop

\* C40: the subscriber is blocked in cv.wait, no publisher is bound any more,
\* and every publisher's reset has returned: nothing will notify it.
C40_Stuck ==
    /\ sub_pc = "blocked"
    /\ pubs = {}
    /\ \A p \in Pubs : pub_pc[p] = "gone"

====
